---- MODULE Spec2Model ----
(***************************************************************************)
(* Model of the tool-invocation loop of the Softcatala agent backend.     *)
(*                                                                         *)
(* One behaviour is one turn served through POST /chat/stream             *)
(* (backend/main.py).  The turn is run by one of three code paths:        *)
(*   "agent"    Agent.chat_stream of backend/agent.py (Ollama, native     *)
(*              structured tool calls);                                    *)
(*   "hybrid"   LangChainAgent.chat_stream with a HybridFunctionCaller    *)
(*              (text fallback, tool_code fenced blocks);                      *)
(*   "executor" LangChainAgent.chat_stream over an AgentExecutor.         *)
(* The provider, the tools and the executor library are the environment:  *)
(* what they answer is chosen nondeterministically when the code asks.    *)
(*                                                                         *)
(* Texts are sequences of one-character strings, so that the fallback     *)
(* parser is modelled on characters, as the regular expressions of the    *)
(* source work.                                                            *)
(***************************************************************************)
EXTENDS Integers, Sequences, FiniteSets, TLC


\* ---------------------------------------------------------------- bounds
\* chunks of the first provider response read by Agent.chat_stream
MaxLines == 2
\* structured tool calls carried by one chunk
MaxCallsPerChunk == 2
\* chunks of one follow-up response read by Agent.chat_stream
MaxFollowLines == 1
\* messages of the incoming request
MaxMsgs == 2
\* chunks produced by agent_executor.astream
MaxChunks == 2
\* failures (a provider call that fails, a tool that raises) in one turn
MaxFaults == 1
\* key=value pairs of a call written into a tool_code block
MaxPairs == 2
\* parameters declared by a tool definition
MaxParams == 2
\* /chat/stream requests in progress at the same time
MaxTurns == 2
\* calls of _create_fallback_prompt on one caller
MaxPromptCalls == 3
\* GET /health requests
MaxHealthRequests == 3
\* the largest max_user_messages a MessageHistory is built with
MaxWindow == 2
\* add_message calls on one chat between two clear_history calls
MaxAdds == 4
\* text messages the Telegram bot receives
MaxHandlers == 2
\* events the agent yields in one Telegram turn
MaxEvents == 2

\* ------------------------------------------------------ program constants
\* max_iterations handed to AgentExecutor: the iteration cap
MaxIterations == 3

\* ------------------------------------------------------------ tool names
\* A tool name is a text; f is the registered tool, g is not registered.
\* Agent.tools: the registry of agent.py, keyed by tool name
Registry == {<<"f">>}
\* names a model may put in a structured tool call
ToolNames == {<<"f">>, <<"g">>}

VARIABLES
    impl,            \* which chat_stream serves the turn
    messages,        \* request.messages, as dictionaries
    pc,              \* position of the turn in the code
    stream,          \* what generate() has yielded so far (SSE data items)
    history,         \* ghost: provider calls, tool executions, requests
    ollama_messages, \* Agent.chat_stream: the message list sent to Ollama
    tool_calls,      \* Agent.chat_stream: tool_calls of the chunk in hand
    callIdx,         \* Agent.chat_stream: index of the tool call in hand
    chunkDone,       \* Agent.chat_stream: chunk.get("done") of the chunk in hand
    linesRead,       \* chunks of the first response consumed
    followRead,      \* chunks of the current follow-up response consumed
    reqCount,        \* ghost: tool call requests seen so far (correlation ids)
    faults,          \* ghost: failures the environment has produced so far
    response,        \* fallback: the text of the model's first response
    tool_call,       \* fallback: what _extract_tool_call_from_text returned
    chunk_count,     \* LangChainAgent.chat_stream: chunks of astream consumed
    pin,             \* parser check: the call a text is written from
    presult,         \* parser check: what the parser returned for that text
    definition,      \* BaseTool.definition.parameters of the tool in hand
    params,          \* names of the arguments handed to the tool
    vresult,         \* what validate_parameters did with them
    tpath,           \* tool check: the code that runs the tool
    tstyle,          \* tool check: how the tool's execute treats a ValueError
    tpc,             \* tool check: position in that code
    entered,         \* ghost: tool.execute has been called
    toolOutcome,         \* tool check: how tool.execute ended
    report,          \* tool check: what the caller made of the tool call
    providers,       \* ModelManager.providers: the configured providers
    failing,         \* providers whose get_default_model raises
    has_tools,       \* LangChainAgent.tools is not empty
    default_model,   \* what ModelManager.get_default_model returned
    asked,           \* ghost: providers asked for their default model
    hybrid_caller,   \* LangChainAgent.hybrid_caller is set
    agent_executor,  \* LangChainAgent.agent_executor: its kind
    adapter,         \* what chat_stream uses to serve the turn
    spc,             \* position in the construction of the agent
    executor_model,  \* the model the agent's agent_executor is built on
    with_hybrid,     \* the shared agent has a hybrid_caller
    turns,           \* the /chat/stream requests, by number
    switched_model,  \* ghost: the model of the last switch_model that returned
    caller_tools,    \* HybridFunctionCaller.tools
    use_catalan,     \* HybridFunctionCaller.use_catalan
    prompt_calls,    \* ghost: the calls of _create_fallback_prompt so far
    model_health,    \* what ModelManager.health_check would report, by provider
    check_raises,    \* whether agent.check_health would raise
    check_calls,     \* ghost: the calls of agent.check_health so far
    health_responses, \* the answers of GET /health so far
    max_user_messages, \* MessageHistory.max_user_messages
    histories,       \* MessageHistory.histories, by chat
    added,           \* ghost: the messages added to a chat since its last clear
    add_raised,      \* ghost: a call of MessageHistory has raised
    active_chats,    \* TelegramBot.active_chats
    debug_mode,      \* TelegramBot.debug_mode
    handlers,        \* the handle_message calls: locals, position and ghosts
    lc_messages,     \* LangChainAgent.chat_stream: the messages argument
    agent_input,     \* LangChainAgent.chat_stream: the agent_input it builds
    tool_behaviour,  \* what the wrapped tool's execute does when called
    arun_return      \* what LangChainToolWrapper._arun gave its caller

agentVars == <<ollama_messages, tool_calls, callIdx, chunkDone, linesRead, followRead>>
lcVars == <<response, tool_call, chunk_count>>
parseVars == <<pin, presult>>
validateVars == <<definition, params, vresult>>
toolVars == <<tpath, tstyle, tpc, entered, toolOutcome, report>>
setupVars == <<providers, failing, has_tools, default_model, asked, hybrid_caller,
               agent_executor, adapter, spc>>
sharedVars == <<executor_model, with_hybrid, turns, switched_model>>
earlierVars == <<validateVars, toolVars, setupVars>>
promptVars == <<caller_tools, use_catalan, prompt_calls>>
healthVars == <<model_health, check_raises, check_calls, health_responses>>
historyVars == <<max_user_messages, histories, added, add_raised>>
telegramVars == <<active_chats, debug_mode, handlers>>
inputVars == <<lc_messages, agent_input>>
arunVars == <<tool_behaviour, arun_return>>
restVars == <<inputVars, arunVars>>
botVars == <<historyVars, telegramVars, restVars>>
laterVars == <<sharedVars, promptVars, healthVars, botVars>>
priorVars == <<impl, messages, pc, stream, history, reqCount, faults, agentVars, lcVars,
               parseVars, earlierVars, sharedVars, promptVars, healthVars, restVars>>
sideVars == <<earlierVars, laterVars>>
turnVars == <<impl, messages, pc, stream, history, reqCount, faults, agentVars, lcVars>>
vars == <<impl, messages, pc, stream, history, reqCount, faults, agentVars, lcVars,
          parseVars, sideVars>>

\* the variables of validate_parameters before any tool is in hand
ValidateIdle ==
    /\ definition = <<>>
    /\ params = {}
    /\ vresult = [called |-> FALSE]

\* no tool call is being run
ToolIdle ==
    /\ tpath = "none"
    /\ tstyle = "none"
    /\ tpc = "idle"
    /\ entered = FALSE
    /\ toolOutcome = "none"
    /\ report = "none"

\* no agent is being constructed
SetupIdle ==
    /\ providers = {}
    /\ failing = {}
    /\ has_tools = FALSE
    /\ default_model = [raised |-> FALSE, provider |-> "none", model |-> "none"]
    /\ asked = <<>>
    /\ hybrid_caller = FALSE
    /\ agent_executor = "none"
    /\ adapter = "none"
    /\ spc = "idle"

\* no request is at the shared agent
SharedIdle ==
    /\ executor_model = "default"
    /\ with_hybrid = FALSE
    /\ turns = <<>>
    /\ switched_model = "default"

\* no fallback prompt is being built
PromptIdle ==
    /\ caller_tools = <<>>
    /\ use_catalan = FALSE
    /\ prompt_calls = <<>>

\* no /health request has been made
HealthIdle ==
    /\ model_health = <<>>
    /\ check_raises = FALSE
    /\ check_calls = 0
    /\ health_responses = <<>>

\* the chats of the Telegram bot
Chats == {"c1", "c2"}

\* a MessageHistory nobody has used
HistoryIdle ==
    /\ max_user_messages = 1
    /\ histories = [c \in Chats |-> <<>>]
    /\ added = [c \in Chats |-> <<>>]
    /\ add_raised = FALSE

\* the handle_message calls the bot will get
HandlerIds == 1..MaxHandlers

\* a handle_message call that has not started
NoHandler ==
    [chat |-> "c1", hpc |-> "none", full_response |-> <<>>, chunks |-> 0,
     tool_on |-> 0, tool_off |-> 0, tool_sent |-> 0, way |-> "",
     final |-> <<>>, agent_called |-> FALSE, user_stamp |-> 0,
     assistant_added |-> FALSE]

\* a TelegramBot that has received nothing
TelegramIdle ==
    /\ active_chats = [c \in Chats |-> FALSE]
    /\ debug_mode = [c \in Chats |-> FALSE]
    /\ handlers = [h \in HandlerIds |-> NoHandler]

\* no agent input is being prepared
InputIdle ==
    /\ lc_messages = <<>>
    /\ agent_input = [called |-> FALSE]

\* no wrapped tool is being run
ArunIdle ==
    /\ tool_behaviour = "none"
    /\ arun_return = [called |-> FALSE]

RestIdle == InputIdle /\ ArunIdle

BotIdle == HistoryIdle /\ TelegramIdle /\ RestIdle

EarlierIdle == ValidateIdle /\ ToolIdle /\ SetupIdle
LaterIdle == SharedIdle /\ PromptIdle /\ HealthIdle /\ BotIdle

\* everything outside a turn and outside the parser at rest
SideIdle == EarlierIdle /\ LaterIdle

\* ------------------------------------------------------------- helpers
\* a "data: {...}" item of the stream.  req is the ghost correlation id of
\* the tool call request the item belongs to, from the place that yields it
Event(type, tool, req, from, text) ==
    [type |-> type, tool |-> tool, req |-> req, from |-> from, text |-> text]

\* the "data: [DONE]" end-of-stream marker
DoneMarker == Event("done", <<>>, 0, "generate", <<>>)

\* ghost log entry, stamped with the length of the stream at that moment
Hist(op, tool, req) ==
    [op |-> op, tool |-> tool, req |-> req, at |-> Len(stream)]

Emit(e) == stream' = Append(stream, e)
Log(h) == history' = Append(history, h)

\* sequences over S of length at most n
SeqsUpTo(S, n) == UNION {[1..k -> S] : k \in 0..n}

\* role/content dictionaries a request may carry
MsgDicts ==
    [role : {"user"}, content : {"", "hola"}]
      \cup [role : {"assistant", "system"}, content : {"hola"}]

\* the implementations of chat_stream
Impls == {"agent", "hybrid", "executor"}

\* ---------------------------------------------- POST /chat/stream, set-up
\* messages_dict = [msg.dict() for msg in request.messages].
\* Agent.chat_stream only copies the messages, so one list stands for all.
Init ==
    /\ impl \in Impls
    /\ messages \in IF impl = "agent"
                    THEN {<<[role |-> "user", content |-> "hola"]>>}
                    ELSE SeqsUpTo(MsgDicts, MaxMsgs)
    /\ pc = "start"
    /\ stream = <<>>
    /\ history = <<>>
    /\ ollama_messages = <<>>
    /\ tool_calls = <<>>
    /\ callIdx = 0
    /\ chunkDone = FALSE
    /\ linesRead = 0
    /\ followRead = 0
    /\ reqCount = 0
    /\ faults = 0
    /\ response = <<>>
    /\ tool_call = [found |-> FALSE]
    /\ chunk_count = 0
    /\ pin = [lead |-> <<>>, name |-> <<>>, pairs |-> <<>>]
    /\ presult = [parsed |-> FALSE]
    /\ SideIdle

\* ------------------------------------------------------------------ text
\* A text is a sequence of one-character strings.
Digits == {"0", "1", "2", "3", "4", "5", "6", "7", "8", "9"}
Letters == {"a", "c", "d", "e", "f", "g", "h", "k", "l", "n", "o", "s", "t", "x"}
\* \w of the regular expressions
WordChars == Letters \cup Digits \cup {"_"}
\* \s of the regular expressions and of str.strip()
SpaceChars == {" ", "\n", "\t"}
\* the backquote character, which a TLA+ string cannot hold
Bq == "bq"
\* the characters of str.strip('"\'')
QuoteChars == {"\"", "'"}

\* text[i:].startswith(pat)
StartsWithAt(text, i, pat) ==
    /\ i >= 1
    /\ i + Len(pat) - 1 <= Len(text)
    /\ \A j \in 1..Len(pat) : text[i + j - 1] = pat[j]

Min(S) == CHOOSE x \in S : \A y \in S : x <= y
Max(S) == CHOOSE x \in S : \A y \in S : x >= y

\* the first position at or after i that does not hold a character of set
\* cs (Len(text) + 1 when there is none): where a greedy cs* stops
SkipWhile(text, i, cs) ==
    Min({j \in i..(Len(text) + 1) : j = Len(text) + 1 \/ text[j] \notin cs})

\* str.strip(chars)
StripChars(text, cs) ==
    LET keep == {i \in 1..Len(text) : text[i] \notin cs} IN
    IF keep = {} THEN <<>> ELSE SubSeq(text, Min(keep), Max(keep))

\* str.strip()
Strip(text) == StripChars(text, SpaceChars)

\* positions of character c in text
Positions(text, c) == {i \in 1..Len(text) : text[i] = c}

\* str.split(sep), for a one character separator
RECURSIVE Split(_, _)
Split(text, sep) ==
    LET at == Positions(text, sep) IN
    IF at = {} THEN <<text>>
    ELSE <<SubSeq(text, 1, Min(at) - 1)>>
           \o Split(SubSeq(text, Min(at) + 1, Len(text)), sep)

\* ------------------------------ HybridFunctionCaller._extract_tool_call_from_text
\* the literal parts of  the fence pattern, tool_code between two runs of three backquotes
FenceOpen == <<Bq, Bq, Bq, "t", "o", "o", "l", "_", "c", "o", "d", "e">>
FenceClose == <<Bq, Bq, Bq>>

\* text[e:] matches  white space and the closing fence
ClosesAt(text, e) == StartsWithAt(text, SkipWhile(text, e, SpaceChars), FenceClose)

\* re.search(pattern, text, re.DOTALL) for the fence pattern, tried at
\* position p: after the opening fence the greedy \s* runs to g, then the
\* lazy group (.*?) grows to the first e from which white space and the closing fence matches
FenceMatchAt(text, p) ==
    LET g == SkipWhile(text, p + Len(FenceOpen), SpaceChars)
        ends == {e \in g..(Len(text) + 1) : ClosesAt(text, e)}
    IN  IF StartsWithAt(text, p, FenceOpen) /\ ends # {}
        THEN [found |-> TRUE, group |-> SubSeq(text, g, Min(ends) - 1)]
        ELSE [found |-> FALSE]

\* the leftmost match of the fence pattern: match.group(1)
FenceSearch(text) ==
    LET starts == {p \in 1..Len(text) : FenceMatchAt(text, p).found} IN
    IF starts = {} THEN [found |-> FALSE] ELSE FenceMatchAt(text, Min(starts))

\* FuncMatchAt without its need for a closing parenthesis
FuncMatchAt_Unclosed(code, i) ==
    LET j == SkipWhile(code, i, WordChars) IN
    IF /\ i <= Len(code) /\ code[i] \in WordChars
       /\ j <= Len(code) /\ code[j] = "("
    THEN [found |-> TRUE, func_name |-> SubSeq(code, i, j - 1),
          args_str |-> SubSeq(code, j + 1, Len(code))]
    ELSE [found |-> FALSE]

\* re.search(r"(\w+)\((.*?)\)", code, re.DOTALL) tried at position i: the
\* greedy \w+ takes the whole run of word characters, "(" must follow, and
\* the lazy (.*?) stops at the first ")" after it
FuncMatchAt(code, i) ==
    LET j == SkipWhile(code, i, WordChars)
        closes == {c \in (j + 1)..Len(code) : code[c] = ")"}
    IN  IF /\ i <= Len(code) /\ code[i] \in WordChars
           /\ j <= Len(code) /\ code[j] = "("
           /\ closes # {}
        THEN [found |-> TRUE, func_name |-> SubSeq(code, i, j - 1),
              args_str |-> SubSeq(code, j + 1, Min(closes) - 1)]
        ELSE [found |-> FALSE]

FuncSearch(code) ==
    LET starts == {i \in 1..Len(code) : FuncMatchAt(code, i).found} IN
    IF starts = {} THEN [found |-> FALSE] ELSE FuncMatchAt(code, Min(starts))

\* int(value) for a text of digits
RECURSIVE IntOf(_)
IntOf(ds) ==
    IF ds = <<>> THEN 0
    ELSE 10 * IntOf(SubSeq(ds, 1, Len(ds) - 1))
           + (CHOOSE n \in 0..9 : <<"0", "1", "2", "3", "4", "5", "6", "7", "8", "9">>[n + 1] = ds[Len(ds)])

\* value.isdigit()
IsDigit(value) == value # <<>> /\ \A i \in 1..Len(value) : value[i] \in Digits

\* float(value) succeeds.  float() strips white space; over the characters
\* modelled here a float literal is digits with one "." and a digit somewhere
IsFloatLit(value) ==
    LET v == Strip(value) IN
    /\ Cardinality(Positions(v, ".")) = 1
    /\ \A i \in 1..Len(v) : v[i] \in Digits \cup {"."}
    /\ Len(v) >= 2

\* the float a literal denotes, as num / 10^scale in lowest such form
RECURSIVE Reduce(_, _)
Reduce(num, scale) ==
    IF scale > 0 /\ num % 10 = 0 THEN Reduce(num \div 10, scale - 1)
    ELSE [kind |-> "float", num |-> num, scale |-> scale]

FloatOf(value) ==
    LET v == Strip(value)
        dot == Min(Positions(v, "."))
    IN  Reduce(IntOf(SubSeq(v, 1, dot - 1) \o SubSeq(v, dot + 1, Len(v))), Len(v) - dot)

\* lines 62-71: float if the value has a ".", int if it is all digits, the
\* string itself otherwise and when float() raises ValueError
Coerce(value) ==
    IF Positions(value, ".") # {}
    THEN IF IsFloatLit(value) THEN FloatOf(value)
         ELSE [kind |-> "str", text |-> value]
    ELSE IF IsDigit(value) THEN [kind |-> "int", num |-> IntOf(value)]
         ELSE [kind |-> "str", text |-> value]

\* lines 55-71: fold the comma separated pairs into args, from the left;
\* a pair without "=" is passed over, a repeated key is overwritten
RECURSIVE ParsePairs(_, _)
ParsePairs(arg_pairs, args) ==
    IF arg_pairs = <<>> THEN args
    ELSE LET pair == Head(arg_pairs)
             eq == Positions(pair, "=")
         IN  IF eq = {} THEN ParsePairs(Tail(arg_pairs), args)
             ELSE LET key == Strip(SubSeq(pair, 1, Min(eq) - 1))
                      value == StripChars(Strip(SubSeq(pair, Min(eq) + 1, Len(pair))),
                                          QuoteChars)
                  IN  ParsePairs(Tail(arg_pairs),
                         [k \in DOMAIN args \cup {key} |->
                             IF k = key THEN Coerce(value) ELSE args[k]])

\* the empty dict
EmptyArgs == [k \in {} |-> 0]

\* lines 36-79; [found |-> FALSE] stands for None
ExtractToolCall(text) ==
    LET match == FenceSearch(text) IN
    IF ~match.found THEN [found |-> FALSE]
    ELSE LET code == Strip(match.group)
             func_match == FuncSearch(code)
         IN  IF ~func_match.found THEN [found |-> FALSE]
             ELSE [found |-> TRUE,
                   name |-> func_match.func_name,
                   arguments |->
                     IF Strip(func_match.args_str) # <<>>
                     THEN ParsePairs(Split(func_match.args_str, ","), EmptyArgs)
                     ELSE EmptyArgs]

\* the environment may fail once more
MayFail == faults < MaxFaults
Fail == faults' = faults + 1

\* ------------------------------------------- Agent.chat_stream (agent.py)
\* the outcomes of Agent._execute_tool: ValueError for an unknown name,
\* otherwise whatever tool.execute does
ExecuteOutcomes(tool_name) ==
    IF tool_name \notin Registry THEN {"raise"} ELSE {"ok", "raise"}

\* lines 79-85: copy role and content of every incoming message
ConvertToOllama(msgs) ==
    [i \in 1..Len(msgs) |-> [role |-> msgs[i].role, kind |-> "incoming"]]

AgentStart ==
    /\ pc = "start"
    /\ impl = "agent"
    /\ ollama_messages' = ConvertToOllama(messages)
    /\ pc' = "open"
    /\ UNCHANGED <<impl, messages, stream, history, reqCount, faults, lcVars,
                   tool_calls, callIdx, chunkDone, linesRead, followRead>>
    /\ UNCHANGED <<parseVars, sideVars>>

\* lines 105-112: open the streaming request; a failure lands in the outer
\* except clause (229-235), which yields one error event
AgentOpenStream ==
    /\ pc = "open"
    /\ \/ /\ Log(Hist("call", <<>>, 0))
          /\ pc' = "lines"
          /\ UNCHANGED <<stream, faults>>
       \/ /\ MayFail /\ Fail
          /\ history' = history \o <<Hist("call", <<>>, 0), Hist("fail", <<>>, 0)>>
          /\ Emit(Event("error", <<>>, 0, "chat_stream", <<>>))
          /\ pc' = "returned"
    /\ UNCHANGED <<impl, messages, reqCount, agentVars, lcVars>>
    /\ UNCHANGED <<parseVars, sideVars>>

\* lines 114-131 and 222-227: one step of "async for line in aiter_lines()".
\* A blank line and a line that is not JSON are skipped and change nothing.
AgentNextLine ==
    /\ pc = "lines"
    /\ \/ \* the response ends without a done chunk
          /\ pc' = "returned"
          /\ UNCHANGED <<stream, history, faults, tool_calls, callIdx, chunkDone, linesRead>>
       \/ \* the connection breaks while streaming: outer except
          /\ MayFail /\ Fail
          /\ Log(Hist("fail", <<>>, 0))
          /\ Emit(Event("error", <<>>, 0, "chat_stream", <<>>))
          /\ pc' = "returned"
          /\ UNCHANGED <<tool_calls, callIdx, chunkDone, linesRead>>
       \/ \* a chunk
          /\ linesRead < MaxLines
          /\ linesRead' = linesRead + 1
          /\ \E content \in BOOLEAN, done \in BOOLEAN,
                calls \in SeqsUpTo(ToolNames, MaxCallsPerChunk) :
               /\ IF content
                  THEN Emit(Event("content", <<>>, 0, "first", <<>>))
                  ELSE UNCHANGED stream
               /\ tool_calls' = calls
               /\ callIdx' = 1
               /\ chunkDone' = done
               /\ pc' = IF calls # <<>> THEN "calls"
                        ELSE IF done THEN "returned" ELSE "lines"
          /\ UNCHANGED <<history, faults>>
    /\ UNCHANGED <<impl, messages, reqCount, ollama_messages, followRead, lcVars>>
    /\ UNCHANGED <<parseVars, sideVars>>

\* AgentNextCall without the tool_call notification of lines 141-146
AgentNextCall_Silent ==
    /\ pc = "calls"
    /\ IF callIdx > Len(tool_calls)
       THEN /\ pc' = IF chunkDone THEN "returned" ELSE "lines"
            /\ UNCHANGED <<stream, history, callIdx, reqCount>>
       ELSE LET tool_name == tool_calls[callIdx] IN
            /\ reqCount' = reqCount + 1
            /\ Log(Hist("request", tool_name, reqCount + 1))
            /\ IF tool_name \in Registry
               THEN /\ pc' = "exec"
                    /\ UNCHANGED <<stream, callIdx>>
               ELSE /\ callIdx' = callIdx + 1
                    /\ UNCHANGED <<pc, stream>>
    /\ UNCHANGED <<impl, messages, faults, ollama_messages, tool_calls, chunkDone,
                   linesRead, followRead, lcVars>>
    /\ UNCHANGED <<parseVars, sideVars>>

\* lines 133-146 and 222-224: take the next element of tool_calls; a name
\* that is not in self.tools is passed over without any event
AgentNextCall ==
    /\ pc = "calls"
    /\ IF callIdx > Len(tool_calls)
       THEN /\ pc' = IF chunkDone THEN "returned" ELSE "lines"
            /\ UNCHANGED <<stream, history, callIdx, reqCount>>
       ELSE LET tool_name == tool_calls[callIdx] IN
            /\ reqCount' = reqCount + 1
            /\ Log(Hist("request", tool_name, reqCount + 1))
            /\ IF tool_name \in Registry
               THEN /\ Emit(Event("tool_call", tool_name, reqCount + 1, "first", <<>>))
                    /\ pc' = "exec"
                    /\ UNCHANGED callIdx
               ELSE /\ callIdx' = callIdx + 1
                    /\ UNCHANGED <<pc, stream>>
    /\ UNCHANGED <<impl, messages, faults, ollama_messages, tool_calls, chunkDone,
                   linesRead, followRead, lcVars>>
    /\ UNCHANGED <<parseVars, sideVars>>

\* lines 149-172 and 213-220: run the tool; a success yields tool_result and
\* appends the assistant and tool messages, a failure yields tool_error
AgentExecuteTool ==
    /\ pc = "exec"
    /\ LET tool_name == tool_calls[callIdx] IN
       \E outcome \in ExecuteOutcomes(tool_name) :
         IF outcome = "ok"
         THEN /\ Log(Hist("exec", tool_name, reqCount))
              /\ Emit(Event("tool_result", tool_name, reqCount, "first", <<>>))
              /\ ollama_messages' = ollama_messages \o
                    << [role |-> "assistant", kind |-> "tool_calls"],
                       [role |-> "tool", kind |-> "result"] >>
              /\ pc' = "fopen"
              /\ UNCHANGED <<callIdx, faults>>
         ELSE /\ MayFail /\ Fail
              /\ history' = history \o <<Hist("exec", tool_name, reqCount),
                                         Hist("raise", tool_name, reqCount)>>
              /\ Emit(Event("tool_error", tool_name, reqCount, "first", <<>>))
              /\ callIdx' = callIdx + 1
              /\ pc' = "calls"
              /\ UNCHANGED ollama_messages
    /\ UNCHANGED <<impl, messages, reqCount, tool_calls, chunkDone, linesRead,
                   followRead, lcVars>>
    /\ UNCHANGED <<parseVars, sideVars>>

\* lines 175-193: the follow-up request; it sits inside the try of the tool
\* execution, so its failure is caught at 213 and yields tool_error
AgentFollowUpOpen ==
    /\ pc = "fopen"
    /\ LET tool_name == tool_calls[callIdx] IN
       \/ /\ Log(Hist("call", <<>>, reqCount))
          /\ followRead' = 0
          /\ pc' = "flines"
          /\ UNCHANGED <<stream, callIdx, faults>>
       \/ /\ MayFail /\ Fail
          /\ history' = history \o <<Hist("call", <<>>, reqCount),
                                     Hist("fail", <<>>, reqCount)>>
          /\ Emit(Event("tool_error", tool_name, reqCount, "followup", <<>>))
          /\ callIdx' = callIdx + 1
          /\ pc' = "calls"
          /\ UNCHANGED followRead
    /\ UNCHANGED <<impl, messages, reqCount, ollama_messages, tool_calls, chunkDone,
                   linesRead, lcVars>>
    /\ UNCHANGED <<parseVars, sideVars>>

\* lines 195-211: one step of "async for follow_line in aiter_lines()".
\* Only a chunk that has message.content is looked at, for its content and
\* for its done flag; any other line changes nothing.
AgentFollowNext ==
    /\ pc = "flines"
    /\ LET tool_name == tool_calls[callIdx] IN
       \/ \* the follow-up response ends without a done chunk
          /\ callIdx' = callIdx + 1
          /\ pc' = "calls"
          /\ UNCHANGED <<stream, history, followRead, faults>>
       \/ \* the connection breaks while streaming: caught at 213
          /\ MayFail /\ Fail
          /\ Log(Hist("fail", <<>>, reqCount))
          /\ Emit(Event("tool_error", tool_name, reqCount, "followup", <<>>))
          /\ callIdx' = callIdx + 1
          /\ pc' = "calls"
          /\ UNCHANGED followRead
       \/ \* a chunk with message.content
          /\ followRead < MaxFollowLines
          /\ followRead' = followRead + 1
          /\ \E content \in BOOLEAN, done \in BOOLEAN :
               /\ content \/ done
               /\ IF content
                  THEN Emit(Event("content", <<>>, reqCount, "followup", <<>>))
                  ELSE UNCHANGED stream
               /\ pc' = IF done THEN "returned" ELSE "flines"
          /\ UNCHANGED <<history, callIdx, faults>>
    /\ UNCHANGED <<impl, messages, reqCount, ollama_messages, tool_calls, chunkDone,
                   linesRead, lcVars>>
    /\ UNCHANGED <<parseVars, sideVars>>

\* ------------------------------------ LangChainAgent.chat_stream, set-up
\* lines 263-278: current_input is the first user message whose content is
\* not empty (the test "if not current_input" lets later ones go to history)
RECURSIVE CurrentInput(_)
CurrentInput(msgs) ==
    IF msgs = <<>> THEN ""
    ELSE IF Head(msgs).role = "user" /\ Head(msgs).content # ""
         THEN Head(msgs).content
         ELSE CurrentInput(Tail(msgs))

\* texts the code itself builds
NoUserInput == <<"No user input found">>
NotAvailable(tool_name) == <<"Tool ">> \o tool_name \o <<" is not available.">>
ErrorExecuting(tool_name) == <<"Error executing tool ">> \o tool_name

\* self.tools_by_name of the HybridFunctionCaller
tools_by_name == Registry

\* lines 262-316: convert the messages; without a user input one error
\* event is yielded and the generator returns
LcStart ==
    /\ pc = "start"
    /\ impl \in {"hybrid", "executor"}
    /\ IF CurrentInput(messages) = ""
       THEN /\ Emit(Event("error", <<>>, 0, "chat_stream", NoUserInput))
            /\ pc' = "returned"
       ELSE /\ pc' = IF impl = "hybrid" THEN "h_invoke" ELSE "x_stream"
            /\ UNCHANGED stream
    /\ UNCHANGED <<impl, messages, history, reqCount, faults, agentVars, lcVars>>
    /\ UNCHANGED <<parseVars, sideVars>>

\* ------------------------ HybridFunctionCaller._call_with_fallback_tools
Fenced(code) == FenceOpen \o <<"\n">> \o code \o <<"\n">> \o FenceClose

\* what the model may answer to the fallback prompt
ResponseTexts ==
    { <<"h", "o", "l", "a">>,
      Fenced(<<"f", "(", "k", "=", "3", ")">>),
      <<"o", "k", " ">> \o Fenced(<<"f", "(", ")">>) \o <<" ", "a">>,
      Fenced(<<"g", "(", "k", "=", "3", ")">>),
      Fenced(<<"f", "(", "k", "=", "3">>),
      Fenced(<<"f", " ", "k">>),
      Fenced(<<>>),
      FenceOpen \o <<"f", "(", ")">> }

\* what the model may answer to the continuation prompt
ContinuationTexts ==
    { <<"h", "o", "l", "a">>, Fenced(<<"f", "(", "k", "=", "3", ")">>) }

\* lines 256-270 and 288-292, and chat_stream 332-355: the first call of the
\* model.  An exception leaves call_with_tools and is caught in chat_stream,
\* which goes on with self.agent_executor
HybridInvoke ==
    /\ pc = "h_invoke"
    /\ \/ /\ MayFail /\ Fail
          /\ history' = history \o <<Hist("call", <<>>, 0), Hist("fail", <<>>, 0)>>
          /\ pc' = "x_stream"
          /\ UNCHANGED <<stream, reqCount, response, tool_call>>
       \/ \E text \in ResponseTexts :
          LET call == ExtractToolCall(text) IN
          /\ response' = text
          /\ tool_call' = call
          /\ UNCHANGED faults
          /\ IF ~call.found
             THEN /\ Log(Hist("call", <<>>, 0))
                  /\ Emit(Event("content", <<>>, 0, "hybrid", text))
                  /\ pc' = "returned"
                  /\ UNCHANGED reqCount
             ELSE /\ reqCount' = reqCount + 1
                  /\ history' = history \o <<Hist("call", <<>>, 0),
                                             Hist("request", call.name, reqCount + 1)>>
                  /\ IF call.name \in tools_by_name
                     THEN /\ pc' = "h_tool"
                          /\ UNCHANGED stream
                     ELSE /\ Emit(Event("content", <<>>, 0, "hybrid", NotAvailable(call.name)))
                          /\ pc' = "returned"
    /\ UNCHANGED <<impl, messages, agentVars, chunk_count>>
    /\ UNCHANGED <<parseVars, sideVars>>

\* lines 272-274 and 285-287: tool.ainvoke(tool_args).  The wrapper's _arun
\* turns a failing tool into an error dict, which comes back as the result;
\* ainvoke itself raises when the arguments do not fit the tool's schema
HybridTool ==
    /\ pc = "h_tool"
    /\ \/ /\ Log(Hist("exec", tool_call.name, reqCount))
          /\ pc' = "h_cont"
          /\ UNCHANGED <<stream, faults>>
       \/ /\ MayFail /\ Fail
          /\ history' = history \o <<Hist("exec", tool_call.name, reqCount),
                                     Hist("raise", tool_call.name, reqCount)>>
          /\ pc' = "h_cont"
          /\ UNCHANGED stream
       \/ /\ MayFail /\ Fail
          /\ Log(Hist("invalid", tool_call.name, reqCount))
          /\ Emit(Event("content", <<>>, 0, "hybrid", ErrorExecuting(tool_call.name)))
          /\ pc' = "returned"
    /\ UNCHANGED <<impl, messages, reqCount, agentVars, lcVars>>
    /\ UNCHANGED <<parseVars, sideVars>>

\* lines 276-287: the one continuation call; its answer is returned as it
\* is, without a second look for a tool_code block.  The call stands inside
\* the try of line 272: when it fails, the except of line 285 returns the
\* "Error executing tool" message
HybridContinue ==
    /\ pc = "h_cont"
    /\ \/ \E text \in ContinuationTexts :
             /\ Log(Hist("call", <<>>, reqCount))
             /\ Emit(Event("content", <<>>, reqCount, "hybrid_final", text))
             /\ pc' = "returned"
             /\ UNCHANGED faults
       \/ /\ MayFail /\ Fail
          /\ history' = history \o <<Hist("call", <<>>, reqCount),
                                     Hist("fail", <<>>, reqCount)>>
          /\ Emit(Event("content", <<>>, 0, "hybrid", ErrorExecuting(tool_call.name)))
          /\ pc' = "returned"
    /\ UNCHANGED <<impl, messages, reqCount, agentVars, lcVars>>
    /\ UNCHANGED <<parseVars, sideVars>>

\* ------------------------------- LangChainAgent.chat_stream, astream loop
\* the shapes of a chunk that _process_agent_chunk tells apart
ChunkKinds == {"output", "intermediate_steps", "actions", "other", "empty"}

\* lines 430-585: the type of the event made from a chunk, "none" for None
ProcessAgentChunk(kind) ==
    CASE kind = "output" -> "content"
      [] kind = "intermediate_steps" -> "tool_result"
      [] kind = "actions" -> "tool_call"
      [] kind = "other" -> "content"
      [] kind = "empty" -> "none"

\* The AgentExecutor reports an action and then the step that ran it, and
\* plans at most max_iterations actions: an action is pending while its
\* tool_call has no tool_result yet
ExecutorPending ==
    /\ reqCount > 0
    /\ \E i \in 1..Len(stream) : stream[i].type = "tool_call" /\ stream[i].req = reqCount
    /\ ~\E i \in 1..Len(stream) : stream[i].type = "tool_result" /\ stream[i].req = reqCount

PendingTool ==
    LET i == CHOOSE i \in 1..Len(stream) :
                 stream[i].type = "tool_call" /\ stream[i].req = reqCount
    IN  stream[i].tool

\* lines 357-363 and 377-384: self.agent_executor.astream(...) is entered.
\* agent_executor is the AgentExecutor, or for the hybrid set-up the chain
\* prompt | llm; both have astream
ExecutorOpen ==
    /\ pc = "x_stream"
    /\ \/ /\ Log(Hist("call", <<>>, 0))
          /\ pc' = "x_chunks"
          /\ UNCHANGED <<stream, faults>>
       \/ /\ MayFail /\ Fail
          /\ history' = history \o <<Hist("call", <<>>, 0), Hist("fail", <<>>, 0)>>
          /\ Emit(Event("error", <<>>, 0, "astream", <<"Streaming error">>))
          /\ pc' = "returned"
    /\ UNCHANGED <<impl, messages, reqCount, agentVars, lcVars>>
    /\ UNCHANGED <<parseVars, sideVars>>

\* lines 363-384: one step of "async for chunk in astream(...)"
ExecutorNext ==
    /\ pc = "x_chunks"
    /\ \/ \* the executor is finished
          /\ pc' = "returned"
          /\ UNCHANGED <<stream, history, reqCount, faults, chunk_count>>
       \/ \* the executor raises
          /\ MayFail /\ Fail
          /\ Log(Hist("fail", <<>>, 0))
          /\ Emit(Event("error", <<>>, 0, "astream", <<"Streaming error">>))
          /\ pc' = "returned"
          /\ UNCHANGED <<reqCount, chunk_count>>
       \/ \* a chunk
          /\ chunk_count < MaxChunks
          /\ chunk_count' = chunk_count + 1
          /\ \E kind \in (IF impl = "hybrid" THEN {"other"} ELSE ChunkKinds),
                tool \in ToolNames :
               LET type == ProcessAgentChunk(kind) IN
               /\ (type \notin {"tool_call", "tool_result"}) => tool = <<"f">>
               /\ (type = "tool_call") => ~ExecutorPending /\ reqCount < MaxIterations
               /\ (type = "tool_result") => ExecutorPending /\ tool = PendingTool
               /\ reqCount' = IF type = "tool_call" THEN reqCount + 1 ELSE reqCount
               /\ IF type = "none" THEN UNCHANGED stream
                  ELSE IF type = "content"
                       THEN Emit(Event("content", <<>>, 0, "astream", <<>>))
                       ELSE Emit(Event(type, tool,
                                       IF type = "tool_call" THEN reqCount + 1 ELSE reqCount,
                                       "astream", <<>>))
          /\ UNCHANGED <<pc, history, faults>>
    /\ UNCHANGED <<impl, messages, agentVars, response, tool_call>>
    /\ UNCHANGED <<parseVars, sideVars>>

\* ---------------------------------------------- generate() of /chat/stream
\* main.py 166-168: once the agent's generator is exhausted, the
\* end-of-stream marker is sent
Generate ==
    /\ pc = "returned"
    /\ Emit(DoneMarker)
    /\ pc' = "closed"
    /\ UNCHANGED <<impl, messages, history, reqCount, faults, agentVars, lcVars>>
    /\ UNCHANGED <<parseVars, sideVars>>

\* the positions at which a turn is suspended in an await
Awaiting == {"lines", "exec", "fopen", "flines", "h_invoke", "h_tool", "h_cont",
             "x_stream", "x_chunks"}

\* the positions at which the awaited thing can be a running tool
ToolInFlight == {"exec", "h_tool"}

\* The client disconnects: the server cancels the task that drives
\* generate(), and CancelledError is raised at the await the turn is
\* suspended in.  No except clause of main.py 164-175, agent.py 213-235 or
\* langchain_agent.py 354-423 catches it (they catch Exception) and nothing
\* shields the tool call of agent.py 149-152 or of
\* hybrid_function_caller.py 272-274, so a tool that is running is
\* interrupted and the turn is over
Disconnect ==
    /\ pc \in Awaiting
    /\ pc' = "cancelled"
    /\ \/ Log(Hist("disconnect", <<>>, reqCount))
       \/ /\ pc \in ToolInFlight
          /\ LET tool_name == IF pc = "exec" THEN tool_calls[callIdx] ELSE tool_call.name IN
             history' = history \o <<Hist("exec", tool_name, reqCount),
                                     Hist("disconnect", <<>>, reqCount),
                                     Hist("interrupted", tool_name, reqCount)>>
    /\ UNCHANGED <<impl, messages, stream, reqCount, faults, agentVars, lcVars>>
    /\ UNCHANGED <<parseVars, sideVars>>

\* The except branch of generate(), main.py 169-175: an exception raised
\* inside the async for of lines 165-167 (by agent.chat_stream, as the agent
\* of tests/test_api.py 327-350 does, or by json.dumps on a chunk) is
\* answered with one error chunk; the yield of "data: [DONE]" of line 168 is
\* inside the try and is skipped, and the generator ends
GenerateExcept ==
    /\ pc \in Awaiting
    /\ MayFail
    /\ faults' = faults + 1
    /\ Emit(Event("error", <<>>, reqCount, "generate", <<>>))
    /\ pc' = "closed"
    /\ UNCHANGED <<impl, messages, history, reqCount, agentVars, lcVars>>
    /\ UNCHANGED <<parseVars, sideVars>>

Next ==
    \/ AgentStart
    \/ AgentOpenStream
    \/ AgentNextLine
    \/ AgentNextCall
    \/ AgentExecuteTool
    \/ AgentFollowUpOpen
    \/ AgentFollowNext
    \/ LcStart
    \/ HybridInvoke
    \/ HybridTool
    \/ HybridContinue
    \/ ExecutorOpen
    \/ ExecutorNext
    \/ Generate
    \/ GenerateExcept
    \/ Disconnect

Spec == Init /\ [][Next]_vars

\* ------------------------------------------- the parser on written calls
\* A call is written from a name and pairs; a value is a body, bare or
\* between quotes.  expect is the argument the call denotes: an int for
\* digits, a float for a decimal literal, the body itself otherwise.
Str(body) == [kind |-> "str", text |-> body]
Bodies ==
    { [body |-> <<"3">>, expect |-> [kind |-> "int", num |-> 3]],
      [body |-> <<"0", "3">>, expect |-> [kind |-> "int", num |-> 3]],
      [body |-> <<"3", ".", "5">>, expect |-> [kind |-> "float", num |-> 35, scale |-> 1]],
      [body |-> <<"3", ".", "5", "0">>, expect |-> [kind |-> "float", num |-> 35, scale |-> 1]],
      [body |-> <<".", "5">>, expect |-> [kind |-> "float", num |-> 5, scale |-> 1]],
      [body |-> <<"3", ".">>, expect |-> [kind |-> "float", num |-> 3, scale |-> 0]],
      [body |-> <<"a">>, expect |-> Str(<<"a">>)],
      [body |-> <<"a", ".", "c">>, expect |-> Str(<<"a", ".", "c">>)],
      [body |-> <<"h", " ", "o">>, expect |-> Str(<<"h", " ", "o">>)],
      [body |-> <<"h", ",", "o">>, expect |-> Str(<<"h", ",", "o">>)],
      [body |-> <<"a", ")">>, expect |-> Str(<<"a", ")">>)],
      [body |-> <<>>, expect |-> Str(<<>>)] }

\* a body that can stand without quotes
Bare(body) == body # <<>> /\ \A i \in 1..Len(body) : body[i] \in WordChars \cup {"."}

\* the values of a written call: any body between quotes, a bare body bare
Values ==
    {[quote |-> q, body |-> b.body, expect |-> b.expect] : q \in QuoteChars, b \in Bodies}
      \cup {[quote |-> "", body |-> b.body, expect |-> b.expect] : b \in {x \in Bodies : Bare(x.body)}}

Keys == {<<"k">>, <<"n">>}

\* calls with pairwise different keys, after an optional lead-in text
ParseCases ==
    {c \in [lead : {<<>>, <<"o", "k", " ">>}, name : {<<"f">>, <<"f", "_", "3">>},
            pairs : SeqsUpTo([key : Keys, value : Values], MaxPairs)] :
        \A i, j \in 1..Len(c.pairs) : i # j => c.pairs[i].key # c.pairs[j].key}

WriteValue(v) == IF v.quote = "" THEN v.body ELSE <<v.quote>> \o v.body \o <<v.quote>>

RECURSIVE WritePairs(_)
WritePairs(pairs) ==
    IF pairs = <<>> THEN <<>>
    ELSE Head(pairs).key \o <<"=">> \o WriteValue(Head(pairs).value)
           \o (IF Len(pairs) > 1 THEN <<",", " ">> ELSE <<>>) \o WritePairs(Tail(pairs))

\* the response text that holds the call in its tool_code block
WriteCall(c) == c.lead \o Fenced(c.name \o <<"(">> \o WritePairs(c.pairs) \o <<")">>)

InitParse ==
    /\ impl = "hybrid"
    /\ messages = <<[role |-> "user", content |-> "hola"]>>
    /\ pc = "parse"
    /\ stream = <<>>
    /\ history = <<>>
    /\ ollama_messages = <<>>
    /\ tool_calls = <<>>
    /\ callIdx = 0
    /\ chunkDone = FALSE
    /\ linesRead = 0
    /\ followRead = 0
    /\ reqCount = 0
    /\ faults = 0
    /\ response = <<>>
    /\ tool_call = [found |-> FALSE]
    /\ chunk_count = 0
    /\ pin \in ParseCases
    /\ presult = [parsed |-> FALSE]
    /\ SideIdle

\* _extract_tool_call_from_text applied to the written call
ParseStep ==
    /\ ~presult.parsed
    /\ presult' = [parsed |-> TRUE, result |-> ExtractToolCall(WriteCall(pin))]
    /\ UNCHANGED <<impl, messages, pc, stream, history, reqCount, faults,
                   agentVars, lcVars, pin, sideVars>>

NextParse == ParseStep

SpecParse == InitParse /\ [][NextParse]_vars

\* at rest: no turn is being served and no text is being parsed
TurnIdle ==
    /\ impl = "agent"
    /\ messages = <<>>
    /\ pc = "idle"
    /\ stream = <<>>
    /\ history = <<>>
    /\ ollama_messages = <<>>
    /\ tool_calls = <<>>
    /\ callIdx = 0
    /\ chunkDone = FALSE
    /\ linesRead = 0
    /\ followRead = 0
    /\ reqCount = 0
    /\ faults = 0
    /\ response = <<>>
    /\ tool_call = [found |-> FALSE]
    /\ chunk_count = 0
    /\ pin = [lead |-> <<>>, name |-> <<>>, pairs |-> <<>>]
    /\ presult = [parsed |-> FALSE]

\* --------------------------------------- BaseTool.validate_parameters
\* names a tool may declare as parameters, and names a call may carry
ParamNames == {"action", "word", "max_results"}
ArgNames == {"action", "word", "extra"}

\* definition.parameters: ToolParameter entries with different names
Definitions ==
    {d \in SeqsUpTo([name : ParamNames, required : BOOLEAN], MaxParams) :
        \A i, j \in 1..Len(d) : i # j => d[i].name # d[j].name}

\* base.py 44-49: the loop raises ValueError for the first required
\* parameter that is not in params, with a message that names that
\* parameter; it returns True when the loop ends
ValidateParameters(defn, given) ==
    LET lacking == {i \in 1..Len(defn) : defn[i].required /\ defn[i].name \notin given}
    IN  IF lacking = {}
        THEN [called |-> TRUE, raised |-> FALSE, named |-> {}]
        ELSE [called |-> TRUE, raised |-> TRUE, named |-> {defn[Min(lacking)].name}]

InitValidate ==
    /\ TurnIdle
    /\ definition \in Definitions
    /\ params \in SUBSET ArgNames
    /\ vresult = [called |-> FALSE]
    /\ ToolIdle
    /\ SetupIdle
    /\ LaterIdle

\* tool.validate_parameters(params)
ValidateStep ==
    /\ ~vresult.called
    /\ tpc = "idle"
    /\ vresult' = ValidateParameters(definition, params)
    /\ UNCHANGED <<turnVars, parseVars, laterVars, definition, params, toolVars, setupVars>>

NextValidate == ValidateStep

SpecValidate == InitValidate /\ [][NextValidate]_vars

\* ------------------------------------------------- the ways a tool is run
\* Agent._execute_tool, LangChainToolWrapper._arun, and tool.ainvoke of the
\* fallback caller
ToolPaths == {"native", "wrapper", "fallback"}

\* What execute does with the ValueError of its own validate_parameters
\* call: the tools let it propagate (catalan_synonyms.py 46-48), except
\* CatalanTranslatorTool, whose execute catches it and returns a dictionary
\* with success False (catalan_translator.py 146-188)
ToolStyles == {"propagates", "returns_dict"}

\* langchain_tools.py 148-215: the args_schema has one field per declared
\* parameter, without a default when the parameter is required; ainvoke
\* checks the arguments against it before _arun is called
SchemaAccepts(defn, given) ==
    \A i \in 1..Len(defn) : defn[i].required => defn[i].name \in given

InitTool ==
    /\ TurnIdle
    /\ definition \in Definitions
    /\ params \in SUBSET ArgNames
    /\ vresult = [called |-> FALSE]
    /\ tpath \in ToolPaths
    /\ tstyle \in ToolStyles
    /\ tpc = IF tpath = "wrapper" THEN "arun" ELSE "call"
    /\ entered = FALSE
    /\ toolOutcome = "none"
    /\ report = "none"
    /\ SetupIdle
    /\ LaterIdle

\* agent.py 237-243: Agent._execute_tool looks the tool up and awaits
\* tool.execute(**parameters), without any check of the parameters
ExecuteTool ==
    /\ tpc = "call"
    /\ tpath = "native"
    /\ tpc' = "execute"
    /\ UNCHANGED <<turnVars, parseVars, laterVars, setupVars, validateVars, tpath, tstyle, entered,
                   toolOutcome, report>>

\* hybrid_function_caller.py 272-274 and 285-287: tool.ainvoke(tool_args);
\* arguments the schema rejects raise before _arun, and the except clause
\* returns the "Error executing tool" message
FallbackAinvoke ==
    /\ tpc = "call"
    /\ tpath = "fallback"
    /\ IF SchemaAccepts(definition, params)
       THEN /\ tpc' = "arun"
            /\ UNCHANGED report
       ELSE /\ tpc' = "done"
            /\ report' = "error_message"
    /\ UNCHANGED <<turnVars, parseVars, laterVars, setupVars, validateVars, tpath, tstyle, entered, toolOutcome>>

\* langchain_tools.py 84-92 and 127-146: _arun validates first; the
\* ValueError is caught and comes back as the error_details dictionary
Arun ==
    /\ tpc = "arun"
    /\ vresult' = ValidateParameters(definition, params)
    /\ IF vresult'.raised
       THEN /\ tpc' = "done"
            /\ report' = "error_details"
       ELSE /\ tpc' = "execute"
            /\ UNCHANGED report
    /\ UNCHANGED <<turnVars, parseVars, laterVars, setupVars, definition, params, tpath, tstyle,
                   entered, toolOutcome>>

\* tool.execute(**kwargs): its first statement is
\* self.validate_parameters(kwargs) (catalan_synonyms.py 46-48)
ToolExecute ==
    /\ tpc = "execute"
    /\ entered' = TRUE
    /\ vresult' = ValidateParameters(definition, params)
    /\ toolOutcome' = IF ~vresult'.raised THEN "result"
                  ELSE IF tstyle = "propagates" THEN "raised" ELSE "error_dict"
    /\ tpc' = "executed"
    /\ UNCHANGED <<turnVars, parseVars, laterVars, setupVars, definition, params, tpath, tstyle, report>>

\* What the caller yields or returns after execute.  agent.py 153-158 and
\* 213-220: tool_result for any returned value, tool_error for an
\* exception.  langchain_tools.py 104-146: a returned dictionary is passed
\* on unless its status is "error"; an exception becomes error_details
ToolReport ==
    /\ tpc = "executed"
    /\ report' = IF tpath = "native"
                 THEN (IF toolOutcome = "raised" THEN "tool_error" ELSE "tool_result")
                 ELSE (IF toolOutcome = "raised" THEN "error_details" ELSE "result")
    /\ tpc' = "done"
    /\ UNCHANGED <<turnVars, parseVars, laterVars, setupVars, validateVars, tpath, tstyle, entered, toolOutcome>>

NextTool ==
    \/ ExecuteTool
    \/ FallbackAinvoke
    \/ Arun
    \/ ToolExecute
    \/ ToolReport

SpecTool == InitTool /\ [][NextTool]_vars

\* --------------------------------- ModelManager and LangChainAgent set-up
\* an order of asking that prefers Zhipu to OpenRouter
ProviderOrder_ZhipuSecond == <<"ollama", "zhipu", "openai", "openrouter">>

\* model_manager.py 127-157: the order in which get_default_model asks
ProviderOrder == <<"ollama", "openrouter", "openai", "zhipu">>

Providers == {ProviderOrder[i] : i \in 1..Len(ProviderOrder)}

\* the model get_default_model of each provider loads
DefaultModelName(provider) ==
    CASE provider = "ollama" -> "llama3.2"
      [] provider = "openrouter" -> "openai/gpt-oss-20b:free"
      [] provider = "openai" -> "gpt-4.1-mini"
      [] provider = "zhipu" -> "glm-4"

\* OpenRouterProvider.NATIVE_FUNCTION_CALLING_MODELS, as far as it matters
NATIVE_FUNCTION_CALLING_MODELS == {"openai/gpt-oss-20b:free"}

\* hasattr(provider, 'supports_native_function_calling')
HasNativeFlag(provider) == provider = "openrouter"

\* openrouter_provider.py 141-143
SupportsNativeFunctionCalling(provider, model_name) ==
    HasNativeFlag(provider) /\ model_name \in NATIVE_FUNCTION_CALLING_MODELS

\* model_manager.py 127-157, from the i-th provider of the order on: a
\* configured provider is asked; its model is returned unless it raises
RECURSIVE GetDefaultModelFrom(_, _, _, _)
GetDefaultModelFrom(i, configured, bad, seen) ==
    IF i > Len(ProviderOrder)
    THEN [raised |-> TRUE, provider |-> "none", model |-> "none", asked |-> seen]
    ELSE LET p == ProviderOrder[i] IN
         IF p \notin configured
         THEN GetDefaultModelFrom(i + 1, configured, bad, seen)
         ELSE IF p \in bad
              THEN GetDefaultModelFrom(i + 1, configured, bad, Append(seen, p))
              ELSE [raised |-> FALSE, provider |-> p, model |-> DefaultModelName(p),
                    asked |-> Append(seen, p)]

GetDefaultModel(configured, bad) == GetDefaultModelFrom(1, configured, bad, <<>>)

InitSetup ==
    /\ TurnIdle
    /\ ValidateIdle
    /\ ToolIdle
    /\ LaterIdle
    /\ providers \in SUBSET Providers
    /\ failing \in SUBSET providers
    /\ has_tools \in BOOLEAN
    /\ default_model = [raised |-> FALSE, provider |-> "none", model |-> "none"]
    /\ asked = <<>>
    /\ hybrid_caller = FALSE
    /\ agent_executor = "none"
    /\ adapter = "none"
    /\ spc = "init"

\* langchain_agent.py 193-196 and 246-249: _setup_agent asks the model
\* manager for the default model; the RuntimeError is raised again
GetDefaultModelStep ==
    /\ spc = "init"
    /\ LET r == GetDefaultModel(providers, failing) IN
       /\ default_model' = [raised |-> r.raised, provider |-> r.provider, model |-> r.model]
       /\ asked' = r.asked
       /\ spc' = IF r.raised THEN "failed" ELSE "setup"
    /\ UNCHANGED <<turnVars, parseVars, laterVars, validateVars, toolVars, providers, failing,
                   has_tools, hybrid_caller, agent_executor, adapter>>

\* langchain_agent.py 207-244: with tools, a provider that has the
\* attribute supports_native_function_calling gets the HybridFunctionCaller
\* and a plain chain; any other provider gets the AgentExecutor
SetupAgent ==
    /\ spc = "setup"
    /\ IF has_tools
       THEN IF HasNativeFlag(default_model.provider)
            THEN /\ hybrid_caller' = TRUE
                 /\ agent_executor' = "chain"
            ELSE /\ hybrid_caller' = FALSE
                 /\ agent_executor' = "AgentExecutor"
       ELSE /\ hybrid_caller' = FALSE
            /\ agent_executor' = "chain"
    /\ spc' = "ready"
    /\ UNCHANGED <<turnVars, parseVars, laterVars, validateVars, toolVars, providers, failing,
                   has_tools, default_model, asked, adapter>>

\* langchain_agent.py 315-332 and 357-363: a turn goes through the hybrid
\* caller when there is one, through agent_executor.astream otherwise
ChooseAdapter ==
    /\ spc = "ready"
    /\ adapter' = IF hybrid_caller THEN "fallback"
                  ELSE IF agent_executor = "AgentExecutor" THEN "native" ELSE "chain"
    /\ spc' = "turn"
    /\ UNCHANGED <<turnVars, parseVars, laterVars, validateVars, toolVars, providers, failing,
                   has_tools, default_model, asked, hybrid_caller, agent_executor>>

NextSetup ==
    \/ GetDefaultModelStep
    \/ SetupAgent
    \/ ChooseAdapter

SpecSetup == InitSetup /\ [][NextSetup]_vars

\* ------------------------------ requests that share the one agent of main.py
\* main.py 88-91: agent is one module-level LangChainAgent, used by every
\* request.  A request may name a provider and model; "" stands for none
RequestModels == {"", "glm-4", "gpt-4.1-mini"}

TurnIds == 1..MaxTurns

\* langchain_agent.py 213-217: the hybrid caller is built once, in
\* _setup_agent, on the model the agent had then; switch_model (616-651)
\* does not touch it
HybridModel == "default"

InitShared ==
    /\ TurnIdle
    /\ EarlierIdle
    /\ PromptIdle
    /\ HealthIdle
    /\ BotIdle
    /\ executor_model = "default"
    /\ with_hybrid \in BOOLEAN
    /\ turns \in [TurnIds -> [pc : {"new"}, model : RequestModels,
                              at_start : {"none"}, served_by : {"none"},
                              model_due : {"none"}, model_used : {"none"}]]
    /\ switched_model = "default"

\* main.py 147-163 and langchain_agent.py 616-647: the endpoint function has
\* no await, so it runs as one step.  switch_model rebuilds
\* self.agent_executor of the shared agent on the requested model; the
\* generator is created and starts later
Endpoint(t) ==
    /\ turns[t].pc = "new"
    /\ executor_model' = IF turns[t].model # "" THEN turns[t].model ELSE executor_model
    /\ switched_model' = IF turns[t].model # "" THEN turns[t].model ELSE switched_model
    /\ turns' = [turns EXCEPT ![t].pc = "accepted", ![t].at_start = executor_model']
    /\ UNCHANGED <<turnVars, parseVars, earlierVars, promptVars, healthVars, botVars, with_hybrid>>

\* langchain_agent.py 624-651 and main.py 150-159, 185-187: switch_model
\* raises (the provider is not configured, or the agent cannot be built)
\* before self.agent_executor is assigned; the endpoint answers 500 and no
\* stream is started
EndpointSwitchFails(t) ==
    /\ turns[t].pc = "new"
    /\ turns[t].model # ""
    /\ turns' = [turns EXCEPT ![t].pc = "refused"]
    /\ UNCHANGED <<turnVars, parseVars, earlierVars, promptVars, healthVars, botVars,
                   executor_model, with_hybrid, switched_model>>

\* main.py 164-166 and langchain_agent.py 251-332, 357-363: generate()
\* starts chat_stream, which awaits the hybrid caller when there is one and
\* otherwise enters self.agent_executor.astream, on the executor the agent
\* holds at that moment
StartStream(t) ==
    /\ turns[t].pc = "accepted"
    /\ turns' = IF with_hybrid
                THEN [turns EXCEPT ![t].pc = "hybrid", ![t].model_due = switched_model]
                ELSE [turns EXCEPT ![t].pc = "streaming", ![t].served_by = executor_model,
                                   ![t].model_due = switched_model,
                                   ![t].model_used = executor_model]
    /\ UNCHANGED <<turnVars, parseVars, earlierVars, promptVars, healthVars, botVars, executor_model, with_hybrid,
                   switched_model>>

\* langchain_agent.py 332-355: the awaited hybrid call returns and its
\* content ends the turn
HybridReturns(t) ==
    /\ turns[t].pc = "hybrid"
    /\ turns' = [turns EXCEPT ![t].pc = "done", ![t].served_by = "hybrid_caller",
                              ![t].model_used = HybridModel]
    /\ UNCHANGED <<turnVars, parseVars, earlierVars, promptVars, healthVars, botVars, executor_model, with_hybrid,
                   switched_model>>

\* langchain_agent.py 354-363: the awaited hybrid call raises; chat_stream
\* goes on with self.agent_executor as it is now
HybridFallsThrough(t) ==
    /\ turns[t].pc = "hybrid"
    /\ turns' = [turns EXCEPT ![t].pc = "streaming", ![t].served_by = executor_model,
                              ![t].model_used = executor_model]
    /\ UNCHANGED <<turnVars, parseVars, earlierVars, promptVars, healthVars, botVars, executor_model, with_hybrid,
                   switched_model>>

\* main.py 166-168: the stream is exhausted
StreamEnds(t) ==
    /\ turns[t].pc = "streaming"
    /\ turns' = [turns EXCEPT ![t].pc = "done"]
    /\ UNCHANGED <<turnVars, parseVars, earlierVars, promptVars, healthVars, botVars, executor_model, with_hybrid,
                   switched_model>>

NextShared ==
    \E t \in TurnIds :
        \/ Endpoint(t)
        \/ EndpointSwitchFails(t)
        \/ StartStream(t)
        \/ HybridReturns(t)
        \/ HybridFallsThrough(t)
        \/ StreamEnds(t)

SpecShared == InitShared /\ [][NextShared]_vars

\* ------------------------------ HybridFunctionCaller._create_fallback_prompt
\* A prompt text is a sequence of pieces.  Messages are LangChain messages:
\* SystemMessage, HumanMessage, AIMessage, by kind
PromptMessages == [kind : {"system", "human", "ai"}, content : {"hola"}]

\* the tools a caller may hold: name, description and, when the tool has an
\* args_schema, the properties of the schema in their order
SynonymsTool ==
    [name |-> "catalan_synonyms", description |-> "synonyms", has_schema |-> TRUE,
     properties |-> << [name |-> "word", type |-> "string", description |-> "the word"],
                       [name |-> "max_results", type |-> "integer", description |-> ""] >>]
PlainTool ==
    [name |-> "plain", description |-> "no arguments", has_schema |-> FALSE,
     properties |-> <<>>]
ToolLists == {<<>>, <<SynonymsTool>>, <<SynonymsTool, PlainTool>>, <<PlainTool, SynonymsTool>>}

\* lines 135-144: JSON schema types to Python types, str when unknown
TypeMapping(param_type) ==
    CASE param_type = "string" -> "str"
      [] param_type = "integer" -> "int"
      [] param_type = "number" -> "float"
      [] param_type = "boolean" -> "bool"
      [] param_type = "array" -> "list"
      [] param_type = "object" -> "dict"
      [] OTHER -> "str"

\* ", ".join(param_strs) of lines 131-147
RECURSIVE ParamStrs(_)
ParamStrs(properties) ==
    IF properties = <<>> THEN <<>>
    ELSE <<Head(properties).name, ": ", TypeMapping(Head(properties).type)>>
           \o (IF Len(properties) > 1 THEN <<", ">> ELSE <<>>)
           \o ParamStrs(Tail(properties))

\* lines 150-154: one line per parameter that has a description
RECURSIVE ParamDescs(_)
ParamDescs(properties) ==
    IF properties = <<>> THEN <<>>
    ELSE (IF Head(properties).description # ""
          THEN <<"    ", Head(properties).name, ": ", Head(properties).description, "\n">>
          ELSE <<>>)
           \o ParamDescs(Tail(properties))

\* lines 122-158: the function definitions, in the order of self.tools
RECURSIVE ToolDefs(_)
ToolDefs(tools) ==
    IF tools = <<>> THEN <<>>
    ELSE LET tool == Head(tools) IN
         (IF tool.has_schema
          THEN <<"[python]", "def ", tool.name, "(">> \o ParamStrs(tool.properties)
                 \o <<"):", "\n", "    [doc]", tool.description, "\n">>
                 \o ParamDescs(tool.properties)
                 \o <<"    [doc]", "\n", "[end]", "\n\n">>
          ELSE <<"[python]", "def ", tool.name, "():", "\n", "    [doc]",
                 tool.description, "[doc]", "\n", "[end]", "\n\n">>)
           \o ToolDefs(Tail(tools))

\* lines 112-117: the contents of the system messages, each with "\n\n"
RECURSIVE SystemContent(_)
SystemContent(msgs) ==
    IF msgs = <<>> THEN <<>>
    ELSE (IF Head(msgs).kind = "system" THEN <<Head(msgs).content, "\n\n">> ELSE <<>>)
           \o SystemContent(Tail(msgs))

\* lines 160-166: the conversation without the system messages
RECURSIVE Conversation(_, _, _)
Conversation(msgs, user_label, assistant_label) ==
    IF msgs = <<>> THEN <<>>
    ELSE (CASE Head(msgs).kind = "human" -> <<user_label, ": ", Head(msgs).content, "\n">>
            [] Head(msgs).kind = "ai" -> <<assistant_label, ": ", Head(msgs).content, "\n">>
            [] OTHER -> <<>>)
           \o Conversation(Tail(msgs), user_label, assistant_label)

\* a prompt builder that also replays the messages of the earlier calls
BuildPromptWithTools_Remembering(tools, base_prompt, msgs, user_label, assistant_label) ==
    LET earlier == IF prompt_calls = <<>> THEN <<>>
                   ELSE prompt_calls[Len(prompt_calls)].messages
        system_content == SystemContent(msgs) IN
    (IF system_content # <<>>
     THEN SubSeq(system_content, 1, Len(system_content) - 1) \o <<"\n\n">> \o base_prompt
     ELSE base_prompt)
      \o ToolDefs(tools)
      \o Conversation(earlier \o msgs, user_label, assistant_label)

\* lines 109-169.  system_content.strip() drops the "\n\n" after the last
\* system message
BuildPromptWithTools(tools, base_prompt, msgs, user_label, assistant_label) ==
    LET system_content == SystemContent(msgs) IN
    (IF system_content # <<>>
     THEN SubSeq(system_content, 1, Len(system_content) - 1) \o <<"\n\n">> \o base_prompt
     ELSE base_prompt)
      \o ToolDefs(tools)
      \o Conversation(msgs, user_label, assistant_label)

\* lines 81-107
CreateFallbackPrompt(tools, catalan, msgs) ==
    IF tools = <<>>
    THEN (IF msgs # <<>> THEN <<msgs[Len(msgs)].content>> ELSE <<>>)
    ELSE IF catalan
         THEN BuildPromptWithTools(tools, <<"En cada torn", "\n\n">>, msgs,
                                   "Usuari", "Assistent")
         ELSE BuildPromptWithTools(tools, <<"At each turn", "\n\n">>, msgs,
                                   "User", "Assistant")

InitPrompt ==
    /\ TurnIdle
    /\ EarlierIdle
    /\ SharedIdle
    /\ HealthIdle
    /\ BotIdle
    /\ caller_tools \in ToolLists
    /\ use_catalan \in BOOLEAN
    /\ prompt_calls = <<>>

\* self._create_fallback_prompt(messages): the caller's tools and language
\* are read, nothing of the caller is written
CreatePrompt ==
    /\ Len(prompt_calls) < MaxPromptCalls
    /\ \E msgs \in SeqsUpTo(PromptMessages, MaxMsgs) :
         prompt_calls' = Append(prompt_calls,
            [messages |-> msgs,
             prompt |-> CreateFallbackPrompt(caller_tools, use_catalan, msgs)])
    /\ UNCHANGED <<turnVars, parseVars, earlierVars, sharedVars, healthVars, botVars, caller_tools, use_catalan>>

NextPrompt == CreatePrompt

SpecPrompt == InitPrompt /\ [][NextPrompt]_vars

\* ------------------------------------------------------------- GET /health
\* the providers a ModelManager can hold, by the value of their enum member
HealthProviders == {"ollama", "openrouter", "openai", "zhipu"}

\* LangChainAgent.check_health: "agent" is healthy unless the model manager's
\* check raised; the report of the model manager is passed on
CheckHealth(models) ==
    [json |-> "status", agent |-> "healthy", models |-> models]

\* the body of the HTTPException of main.py line 145
Unhealthy ==
    [status |-> 503,
     body |-> [json |-> "detail", detail |-> <<"Servei no saludable", ": ", "check failed">>]]

InitHealth ==
    /\ TurnIdle
    /\ EarlierIdle
    /\ SharedIdle
    /\ PromptIdle
    /\ BotIdle
    /\ model_health \in [HealthProviders -> {"healthy", "error"}]
    /\ check_raises \in BOOLEAN
    /\ check_calls = 0
    /\ health_responses = <<>>

\* health(), main.py 137-145: the first statement of the try block is
\* "return True", so the handler answers 200 with the body true; the call of
\* agent.check_health of line 142 and the except branch are never reached
HealthCheck ==
    /\ Len(health_responses) < MaxHealthRequests
    /\ health_responses' = Append(health_responses, [status |-> 200, body |-> [json |-> "true"]])
    /\ UNCHANGED <<turnVars, parseVars, earlierVars, sharedVars, promptVars, botVars,
                   model_health, check_raises, check_calls>>

NextHealth == HealthCheck

SpecHealth == InitHealth /\ [][NextHealth]_vars

\* ---------------------------------------------------------- MessageHistory
\* PriorIdle: nothing but the Telegram bot and its history is in use
PriorIdle ==
    TurnIdle /\ EarlierIdle /\ SharedIdle /\ PromptIdle /\ HealthIdle /\ RestIdle

HistoryRoles == {"user", "assistant"}

\* lines 52-56: the positions of the user messages
UserMessageIndices(h) ==
    LET pos == {i \in 1..Len(h) : h[i].role = "user"}
        RECURSIVE Sorted(_)
        Sorted(S) == IF S = {} THEN <<>>
                     ELSE LET m == CHOOSE x \in S : \A y \in S : x <= y
                          IN <<m>> \o Sorted(S \ {m})
    IN Sorted(pos)

\* a start index that counts messages where the code counts user messages
StartIndex_CountingMessages(user_message_indices, excess_user_messages) ==
    excess_user_messages + 1

\* lines 61-65: user_message_indices[excess_user_messages], a list index
\* counted from 0; 0 stands for the IndexError of an index past the end
StartIndex(user_message_indices, excess_user_messages) ==
    IF excess_user_messages + 1 <= Len(user_message_indices)
    THEN user_message_indices[excess_user_messages + 1]
    ELSE 0

\* _apply_rolling_window, lines 45-71
ApplyRollingWindow(h, max) ==
    LET user_message_indices == UserMessageIndices(h) IN
    IF Len(user_message_indices) > max
    THEN LET start_index == StartIndex(user_message_indices,
                                       Len(user_message_indices) - max)
         IN IF start_index = 0
            THEN [history |-> h, raised |-> TRUE]
            ELSE [history |-> SubSeq(h, start_index, Len(h)), raised |-> FALSE]
    ELSE [history |-> h, raised |-> FALSE]

\* add_message, lines 20-43: the message is appended, then the window is
\* applied when the role is user
AddMessage(h, max, role, content, timestamp) ==
    LET appended == Append(h, [role |-> role, content |-> content,
                               timestamp |-> timestamp])
    IN IF role = "user" THEN ApplyRollingWindow(appended, max)
       ELSE [history |-> appended, raised |-> FALSE]

InitHistory ==
    /\ PriorIdle
    /\ max_user_messages \in 0..MaxWindow
    /\ histories = [c \in Chats |-> <<>>]
    /\ added = [c \in Chats |-> <<>>]
    /\ add_raised = FALSE
    /\ TelegramIdle

\* message_history.add_message(chat_id, role, content)
AddMessageCall ==
    \E c \in Chats, role \in HistoryRoles :
        /\ Len(added[c]) < MaxAdds
        /\ LET stamp == Len(added[c]) + 1
               r == AddMessage(histories[c], max_user_messages, role, "hola", stamp)
           IN /\ histories' = [histories EXCEPT ![c] = r.history]
              /\ add_raised' = (add_raised \/ r.raised)
              /\ added' = [added EXCEPT ![c] =
                              Append(@, [role |-> role, content |-> "hola",
                                         timestamp |-> stamp])]
        /\ UNCHANGED <<priorVars, telegramVars, max_user_messages>>

\* message_history.clear_history(chat_id), lines 85-94
ClearHistoryCall ==
    \E c \in Chats :
        /\ added[c] # <<>>
        /\ histories' = [histories EXCEPT ![c] = <<>>]
        /\ added' = [added EXCEPT ![c] = <<>>]
        /\ UNCHANGED <<priorVars, telegramVars, max_user_messages, add_raised>>

NextHistory == AddMessageCall \/ ClearHistoryCall

SpecHistory == InitHistory /\ [][NextHistory]_vars

\* ------------------------------------------- TelegramBot.handle_message
\* A content text is a sequence of pieces; ToolBlock stands for a
\* "tool_code ... " block inside the text
ToolBlock == "tool_code block"
ContentPieces == {"", "hola", ToolBlock}
ToolEventTypes == {"tool_call", "tool_result", "tool_error"}

\* the chat whose text messages and commands are followed; the dictionaries
\* of the bot are keyed by chat_id, the other chat stays as it is
FollowedChats == {"c1"}

\* _filter_tool_information, lines 482-511: the text as it is in debug mode,
\* without its tool blocks otherwise
FilterToolInformation(content, debug_enabled) ==
    IF debug_enabled THEN content
    ELSE SelectSeq(content, LAMBDA piece : piece # ToolBlock)

\* a test that takes every response, the empty one too, for a response
HasResponse_Always(full_response) == TRUE

\* line 714, "if full_response:"
HasResponse(full_response) == full_response # <<>>

\* a return that leaves the handler without running the finally clause
ReturnInsideTry_SkipsFinally == "done"

\* lines 695-711 and 766-768: the return after an error event is inside the
\* try, so the finally clause runs next
ReturnInsideTry == "finally"

\* the positions at which a handle_message call holds the chat
Processing == {"typing", "thinking", "stream", "except_inner", "except_outer", "finally"}

SetHandler(h, rec) == handlers' = [handlers EXCEPT ![h] = rec]

InitTelegram ==
    /\ PriorIdle
    /\ max_user_messages \in 0..MaxWindow
    /\ histories = [c \in Chats |-> <<>>]
    /\ added = [c \in Chats |-> <<>>]
    /\ add_raised = FALSE
    /\ TelegramIdle

\* a rejection placed inside the try statement: the finally clause clears
\* the flag on the way out
ArriveWhileActive_Clearing(h, c) ==
    /\ active_chats[c]
    /\ active_chats' = [active_chats EXCEPT ![c] = FALSE]
    /\ SetHandler(h, [handlers[h] EXCEPT !.chat = c, !.hpc = "rejected"])
    /\ UNCHANGED <<debug_mode, historyVars>>

\* lines 519-523: the chat is active; the "please wait" reply is sent and the
\* handler returns before the try statement, so no finally clause runs
ArriveWhileActive(h, c) ==
    /\ active_chats[c]
    /\ SetHandler(h, [handlers[h] EXCEPT !.chat = c, !.hpc = "rejected"])
    /\ UNCHANGED <<active_chats, debug_mode, historyVars>>

\* lines 525-534: the chat is marked active and the typing indicator is
\* requested
ArriveWhileFree(h, c) ==
    /\ ~active_chats[c]
    /\ active_chats' = [active_chats EXCEPT ![c] = TRUE]
    /\ SetHandler(h, [handlers[h] EXCEPT !.chat = c, !.hpc = "typing"])
    /\ UNCHANGED <<debug_mode, historyVars>>

\* a text message arrives: handle_message starts, lines 513-534
Arrive ==
    \E h \in HandlerIds, c \in FollowedChats :
        /\ handlers[h].hpc = "none"
        /\ \A g \in HandlerIds : g < h => handlers[g].hpc # "none"
        /\ (ArriveWhileActive(h, c) \/ ArriveWhileFree(h, c))
        /\ UNCHANGED priorVars

\* lines 534-547: send_chat_action returns or raises; the user message is
\* added to the history, which may raise; the "thinking" reply is requested
Typing ==
    \E h \in HandlerIds :
        LET me == handlers[h]
            c == me.chat
            stamp == Len(added[c]) + 1
            r == AddMessage(histories[c], max_user_messages, "user", "hola", stamp)
        IN /\ me.hpc = "typing"
           /\ \/ /\ SetHandler(h, [me EXCEPT !.hpc = "except_outer",
                                             !.way = "outer_exception"])
                 /\ UNCHANGED historyVars
              \/ /\ histories' = [histories EXCEPT ![c] = r.history]
                 /\ added' = [added EXCEPT ![c] =
                                Append(@, [role |-> "user", content |-> "hola",
                                           timestamp |-> stamp])]
                 /\ add_raised' = (add_raised \/ r.raised)
                 /\ UNCHANGED max_user_messages
                 /\ IF r.raised
                    THEN SetHandler(h, [me EXCEPT !.hpc = "except_outer",
                                                  !.way = "outer_exception",
                                                  !.user_stamp = stamp])
                    ELSE SetHandler(h, [me EXCEPT !.hpc = "thinking",
                                                  !.user_stamp = stamp])
           /\ UNCHANGED <<priorVars, active_chats, debug_mode>>

\* lines 547-550: the "thinking" reply returns or raises; agent.chat_stream
\* is called with the history
Thinking ==
    \E h \in HandlerIds :
        LET me == handlers[h] IN
        /\ me.hpc = "thinking"
        /\ \/ SetHandler(h, [me EXCEPT !.hpc = "except_outer", !.way = "outer_exception"])
           \/ SetHandler(h, [me EXCEPT !.hpc = "stream", !.agent_called = TRUE])
        /\ UNCHANGED <<priorVars, active_chats, debug_mode, historyVars>>

\* lines 550-711: one event of the agent's stream, or an exception of the
\* stream
Chunk ==
    \E h \in HandlerIds :
        LET me == handlers[h]
            debug_enabled == debug_mode[me.chat]
            next == [me EXCEPT !.chunks = @ + 1]
        IN /\ me.hpc = "stream"
           /\ me.chunks < MaxEvents
           /\ \/ \E content \in ContentPieces :
                    \* lines 553-557
                    SetHandler(h, IF content # ""
                                  THEN [next EXCEPT !.full_response = Append(@, content)]
                                  ELSE next)
              \/ \E chunk_type \in ToolEventTypes :
                    \* lines 559-693: a message for the event in debug mode,
                    \* whose sending may raise
                    IF debug_enabled
                    THEN \/ SetHandler(h, [next EXCEPT !.tool_on = @ + 1,
                                                       !.tool_sent = @ + 1])
                         \/ SetHandler(h, [next EXCEPT !.tool_on = @ + 1,
                                                       !.hpc = "except_inner",
                                                       !.way = "send_exception"])
                    ELSE SetHandler(h, [next EXCEPT !.tool_off = @ + 1])
              \/ \* lines 695-711: an error event
                 SetHandler(h, [next EXCEPT !.hpc = ReturnInsideTry,
                                            !.way = "error_event"])
              \/ \* the stream raises
                 SetHandler(h, [me EXCEPT !.hpc = "except_inner",
                                          !.way = "stream_exception"])
           /\ UNCHANGED <<priorVars, active_chats, debug_mode, historyVars>>

\* lines 713-750: the stream has ended
StreamEnd ==
    \E h \in HandlerIds :
        LET me == handlers[h]
            c == me.chat
            filtered_response == FilterToolInformation(me.full_response, debug_mode[c])
            stamp == Len(added[c]) + 1
            r == AddMessage(histories[c], max_user_messages, "assistant",
                            filtered_response, stamp)
        IN /\ me.hpc = "stream"
           /\ IF HasResponse(me.full_response)
              THEN \/ \* lines 714-735: sent, marked as completed, recorded
                      /\ histories' = [histories EXCEPT ![c] = r.history]
                      /\ added' = [added EXCEPT ![c] =
                                     Append(@, [role |-> "assistant",
                                                content |-> filtered_response,
                                                timestamp |-> stamp])]
                      /\ SetHandler(h, [me EXCEPT !.hpc = "finally", !.way = "normal",
                                                  !.final = <<filtered_response>>,
                                                  !.assistant_added = TRUE])
                      /\ UNCHANGED <<max_user_messages, add_raised>>
                   \/ \* _send_split_message raises
                      /\ SetHandler(h, [me EXCEPT !.hpc = "except_inner",
                                                  !.way = "send_exception"])
                      /\ UNCHANGED historyVars
              ELSE \/ \* lines 736-750: the apology
                      /\ SetHandler(h, [me EXCEPT !.hpc = "finally", !.way = "empty"])
                      /\ UNCHANGED historyVars
                   \/ /\ SetHandler(h, [me EXCEPT !.hpc = "except_inner",
                                                  !.way = "send_exception"])
                      /\ UNCHANGED historyVars
           /\ UNCHANGED <<priorVars, active_chats, debug_mode>>

\* lines 751-759: the inner except clause edits the "thinking" message;
\* safe_edit_message does not raise
ExceptInner ==
    \E h \in HandlerIds :
        /\ handlers[h].hpc = "except_inner"
        /\ SetHandler(h, [handlers[h] EXCEPT !.hpc = "finally"])
        /\ UNCHANGED <<priorVars, active_chats, debug_mode, historyVars>>

\* lines 760-765: the outer except clause replies; whether the reply is
\* sent or raises, the finally clause runs next
ExceptOuter ==
    \E h \in HandlerIds :
        /\ handlers[h].hpc = "except_outer"
        /\ SetHandler(h, [handlers[h] EXCEPT !.hpc = "finally"])
        /\ UNCHANGED <<priorVars, active_chats, debug_mode, historyVars>>

\* lines 766-774: the finally clause; the locals of the call are gone when
\* it has returned
Finally ==
    \E h \in HandlerIds :
        LET me == handlers[h]
            c == me.chat
        IN /\ me.hpc = "finally"
           /\ active_chats' = [active_chats EXCEPT ![c] = FALSE]
           /\ SetHandler(h, [NoHandler EXCEPT !.chat = c, !.hpc = "done"])
           /\ UNCHANGED <<priorVars, debug_mode, historyVars>>

\* debug_command, lines 153-160: /debug toggles the mode of the chat
DebugCommand ==
    \E c \in FollowedChats :
        /\ debug_mode' = [debug_mode EXCEPT ![c] = ~@]
        /\ UNCHANGED <<priorVars, active_chats, handlers, historyVars>>

\* what a started handle_message call does next
HandlerStep ==
    Typing \/ Thinking \/ Chunk \/ StreamEnd \/ ExceptInner \/ ExceptOuter \/ Finally

NextTelegram ==
    \/ Arrive
    \/ Typing
    \/ Thinking
    \/ Chunk
    \/ StreamEnd
    \/ ExceptInner
    \/ ExceptOuter
    \/ Finally
    \/ DebugCommand

SpecTelegram == InitTelegram /\ [][NextTelegram]_vars

\* every started handle_message call keeps running: the event loop resumes
\* a coroutine whose await has completed
SpecTelegramFair == SpecTelegram /\ WF_vars(HandlerStep)

\* ------------------------- LangChainAgent.chat_stream, the agent's input
\* the messages a caller may pass, with contents that tell them apart
InputDicts == [role : {"user", "human", "assistant", "system"}, content : {"a", "b"}]

\* lines 266-278: one message of the loop.  acc holds current_input and
\* chat_history so far
ConvertMessage(acc, msg) ==
    IF msg.role \in {"user", "human"}
    THEN IF acc.current_input = ""
         THEN [acc EXCEPT !.current_input = msg.content]
         ELSE [acc EXCEPT !.chat_history =
                  Append(@, [type |-> "HumanMessage", content |-> msg.content])]
    ELSE IF msg.role \in {"assistant", "ai"}
    THEN [acc EXCEPT !.chat_history =
             Append(@, [type |-> "AIMessage", content |-> msg.content])]
    ELSE IF msg.role = "system"
    THEN [acc EXCEPT !.chat_history =
             Append(@, [type |-> "SystemMessage", content |-> msg.content])]
    ELSE acc

\* lines 262-292: the loop over the messages, then agent_input
RECURSIVE ConvertMessages(_, _)
ConvertMessages(acc, msgs) ==
    IF msgs = <<>> THEN acc
    ELSE ConvertMessages(ConvertMessage(acc, Head(msgs)), Tail(msgs))

AgentInput(msgs) ==
    LET acc == ConvertMessages([current_input |-> "", chat_history |-> <<>>], msgs)
    IN [called |-> TRUE, error |-> acc.current_input = "",
        input |-> acc.current_input, chat_history |-> acc.chat_history]

\* every variable but those of the agent input and the wrapped tool run
beforeRestVars == <<turnVars, parseVars, earlierVars, sharedVars, promptVars, healthVars,
                    historyVars, telegramVars>>
BeforeRestIdle ==
    /\ TurnIdle /\ EarlierIdle /\ SharedIdle /\ PromptIdle /\ HealthIdle
    /\ HistoryIdle /\ TelegramIdle

InitInput ==
    /\ BeforeRestIdle
    /\ ArunIdle
    /\ lc_messages \in SeqsUpTo(InputDicts, MaxMsgs)
    /\ agent_input = [called |-> FALSE]

\* chat_stream(messages, session_id) up to line 292
PrepareAgentInput ==
    /\ ~agent_input.called
    /\ agent_input' = AgentInput(lc_messages)
    /\ UNCHANGED <<beforeRestVars, arunVars, lc_messages>>

NextInput == PrepareAgentInput

SpecInput == InitInput /\ [][NextInput]_vars

\* ------------------------------------------- LangChainToolWrapper._arun
\* langchain_tools.py 37: the wrapper's name is the name of the definition
WrapperName == "catalan_synonyms"

\* What the wrapped tool's execute does once its arguments are valid.
\* execute is declared to return a dictionary (base.py 40) and every tool
\* of tools/ does: one with a status other than "error" or without a
\* status, one with status "error" with or without an error text
\* (catalan_synonyms.py 55-58), or it raises
ToolBehaviours == {"returns_result", "returns_no_status", "returns_error",
                   "returns_error_no_text", "raises"}

\* the dictionaries a tool returns
ToolResult(behaviour) ==
    CASE behaviour = "returns_result" -> [status |-> "success", payload |-> "data"]
      [] behaviour = "returns_no_status" -> [success |-> FALSE, payload |-> "data"]
      [] behaviour = "returns_error" -> [status |-> "error", error |-> "empty word"]
      [] behaviour = "returns_error_no_text" -> [status |-> "error"]

\* str(e) of the exception a tool raises
ToolExceptionText == <<"connection refused">>

\* base.py 48: str(e) of the ValueError of validate_parameters
ValidationText(named) ==
    <<"Required parameter '", named, "' missing for tool '", WrapperName, "'">>

\* lines 84-125, the try block of _arun: validate_parameters, execute, and
\* the test of the status; it ends by raising (with the text of the
\* exception) or by returning a value
ArunTry(defn, given, behaviour) ==
    LET v == ValidateParameters(defn, given) IN
    IF v.raised
    THEN [raised |-> TRUE, executed |-> FALSE,
          text |-> ValidationText(CHOOSE n \in v.named : TRUE)]
    ELSE IF behaviour = "raises"
    THEN [raised |-> TRUE, executed |-> TRUE, text |-> ToolExceptionText]
    ELSE LET result == ToolResult(behaviour) IN
         IF "status" \in DOMAIN result /\ result.status = "error"
         THEN LET error_msg == IF "error" \in DOMAIN result THEN result.error
                               ELSE "Tool execution failed"
              IN [raised |-> TRUE, executed |-> TRUE,
                  text |-> <<"Tool ", WrapperName, " failed: ", error_msg>>]
         ELSE [raised |-> FALSE, executed |-> TRUE, value |-> result]

\* an except clause that lets the exception go on to the caller
ArunExcept_Reraising(text, given) ==
    [raised |-> TRUE, text |-> text]

\* lines 127-146, the except clause of _arun: it returns error_details
ArunExcept(text, given) ==
    [raised |-> FALSE,
     value |-> [error |-> text, status |-> "error", tool |-> WrapperName,
                parameters |-> given]]

\* _arun, lines 59-146, called without a run manager as the agent executor
\* of this repository calls it
ArunReturn(defn, given, behaviour) ==
    LET t == ArunTry(defn, given, behaviour) IN
    IF t.raised
    THEN [called |-> TRUE, executed |-> t.executed] @@ ArunExcept(t.text, given)
    ELSE [called |-> TRUE, executed |-> TRUE, raised |-> FALSE, value |-> t.value]

InitArun ==
    /\ TurnIdle /\ ToolIdle /\ SetupIdle /\ SharedIdle /\ PromptIdle /\ HealthIdle
    /\ HistoryIdle /\ TelegramIdle /\ InputIdle
    /\ definition \in Definitions
    /\ params \in SUBSET ArgNames
    /\ vresult = [called |-> FALSE]
    /\ tool_behaviour \in ToolBehaviours
    /\ arun_return = [called |-> FALSE]

\* await tool._arun(**kwargs)
ArunCall ==
    /\ ~arun_return.called
    /\ arun_return' = ArunReturn(definition, params, tool_behaviour)
    /\ UNCHANGED <<beforeRestVars, inputVars, tool_behaviour>>

NextArun == ArunCall

SpecArun == InitArun /\ [][NextArun]_vars

\* ------------------------------------------------------------ properties
TypeOK ==
    /\ impl \in Impls
    /\ pc \in {"start", "open", "lines", "calls", "exec", "fopen", "flines",
               "h_invoke", "h_tool", "h_cont", "x_stream", "x_chunks",
               "returned", "closed", "cancelled", "parse", "idle"}
    /\ faults \in 0..MaxFaults
    /\ linesRead \in 0..MaxLines
    /\ followRead \in 0..MaxFollowLines
    /\ chunk_count \in 0..MaxChunks
    /\ Len(messages) <= MaxMsgs
    /\ Len(pin.pairs) <= MaxPairs
    /\ presult.parsed \in BOOLEAN

\* positions of the stream that hold an event of one of the given types
EventsOf(types) == {j \in 1..Len(stream) : stream[j].type \in types}
\* positions of the ghost log that hold one of the given operations
HistOf(ops) == {i \in 1..Len(history) : history[i].op \in ops}
\* done (the end-of-stream marker) and error end a turn
TerminalTypes == {"done", "error"}
\* the response has been sent completely
TurnOver == pc = "closed"
\* the stream has reached a terminal event
Terminated == Len(stream) > 0 /\ stream[Len(stream)].type \in TerminalTypes

\* C1: in every turn the stream holds exactly one terminal event, the
\* end-of-stream marker or an error event, never both, never neither, and
\* no event follows it.
C1_ExactlyOneTerminalEvent ==
    /\ \A j \in EventsOf(TerminalTypes) : j = Len(stream)
    /\ TurnOver => Terminated

\* C2: a request for a tool that is not registered gets exactly one
\* tool_error event naming the tool, no provider call is made on its
\* behalf, and the stream reaches a terminal event.
C2_UnknownToolGetsOneToolError ==
    TurnOver =>
      \A i \in HistOf({"request"}) :
        history[i].tool \notin Registry =>
          /\ Cardinality({j \in EventsOf({"tool_error"}) :
                            /\ stream[j].tool = history[i].tool
                            /\ stream[j].req = history[i].req}) = 1
          /\ ~\E c \in HistOf({"call"}) : history[c].req = history[i].req
          /\ Terminated

\* C3: for every tool call request the stream carries at most one toolOutcome
\* event, one tool_result or one tool_error, also when the tool succeeds
\* and the continuation request after it fails.
C3_AtMostOneOutcomePerRequest ==
    \A r \in 1..reqCount :
      Cardinality({j \in EventsOf({"tool_result", "tool_error"}) : stream[j].req = r}) <= 1

\* C4: when a tool execution raises, tool_error with the tool name is
\* emitted, a tool-role message carrying the error is appended to the message
\* list, a continuation call is issued, and a content event of the
\* continuation and then a terminal event follow the tool_error.
C4_ToolFailureIsFedBackToTheModel ==
    TurnOver =>
      \A i \in HistOf({"raise"}) :
        \E j \in EventsOf({"tool_error"}) :
          /\ stream[j].tool = history[i].tool
          /\ stream[j].req = history[i].req
          /\ \E m \in 1..Len(ollama_messages) :
                ollama_messages[m] = [role |-> "tool", kind |-> "error"]
          /\ \E c \in HistOf({"call"}) : c > i /\ history[c].req = history[i].req
          /\ \E k \in EventsOf({"content"}) : k > j /\ stream[k].req = history[i].req
          /\ Terminated

\* follow-up requests of the native loop: one per tool round-trip
RoundTrips == Cardinality({c \in HistOf({"call"}) : history[c].req > 0})

\* C5: in the native path a turn performs at most the configured number of
\* tool round-trips (3), whatever the model answers, and then ends with done.
C5_NativeRoundTripsCapped ==
    (impl = "agent" /\ HistOf({"fail", "raise"}) = {}) =>
      /\ RoundTrips <= MaxIterations
      /\ TurnOver => stream[Len(stream)].type = "done"

\* C6: in the fallback path a turn calls the model at most twice; a call
\* after the first is made only after a registered tool was executed, and
\* no tool is executed after that continuation call.
C6_FallbackCallsModelAtMostTwice ==
    impl = "hybrid" =>
      /\ Cardinality(HistOf({"call"})) <= 2
      /\ \A c \in HistOf({"call"}) :
           (\E first \in HistOf({"call"}) : first < c) =>
             \E x \in HistOf({"exec"}) : x < c /\ history[x].tool \in Registry
      /\ \A x \in HistOf({"exec"}) :
           Cardinality({c \in HistOf({"call"}) : c < x}) = 1

\* C7: when a provider call fails, as the first request or as a continuation,
\* the turn ends with one terminal error event, no tool_error is emitted for
\* the failure, and no further provider call is made.
C7_ProviderFailureEndsTurnWithError ==
    TurnOver =>
      \A i \in HistOf({"fail"}) :
        /\ Cardinality(EventsOf({"error"})) = 1
        /\ ~(/\ history[i].at < Len(stream)
             /\ stream[history[i].at + 1].type = "tool_error")
        /\ ~\E c \in HistOf({"call"}) : c > i

\* C8: an error event is emitted only when a provider call failed; failures
\* at tool level never produce one.
C8_ErrorOnlyOnProviderFailure ==
    EventsOf({"error"}) # {} => HistOf({"fail"}) # {}

\* C9: for every text whose first tool_code block holds a call
\* name(k=v, ...), the parser returns that name and an argument map with one
\* entry per pair: quotes stripped, a decimal value as float, an all-digit
\* value as int, any other value as the string itself.
C9_ParserReturnsTheWrittenCall ==
    presult.parsed =>
      /\ presult.result.found
      /\ presult.result.name = pin.name
      /\ DOMAIN presult.result.arguments = {pin.pairs[i].key : i \in 1..Len(pin.pairs)}
      /\ \A i \in 1..Len(pin.pairs) :
           presult.result.arguments[pin.pairs[i].key] = pin.pairs[i].value.expect

\* a tool_code block: an opening fence with a closing fence after it
BlockAt(text, p, q) ==
    /\ StartsWithAt(text, p, FenceOpen)
    /\ q >= p + Len(FenceOpen)
    /\ StartsWithAt(text, q, FenceClose)

HasBlock(text) == \E p, q \in 1..Len(text) : BlockAt(text, p, q)

\* what stands between the fences of the first block
BlockContent(text) ==
    LET p == Min({x \in 1..Len(text) : \E q \in 1..Len(text) : BlockAt(text, x, q)})
        q == Min({y \in 1..Len(text) : BlockAt(text, p, y)})
    IN  SubSeq(text, p + Len(FenceOpen), q - 1)

\* a name directly followed by "(" with a ")" somewhere after it
HoldsCall(code) ==
    \E k, m \in 1..Len(code) :
        /\ code[k] \in WordChars
        /\ k + 1 < m
        /\ code[k + 1] = "("
        /\ code[m] = ")"

\* no tool_code block, or one whose content is not a call
NoToolCallIn(text) == ~HasBlock(text) \/ ~HoldsCall(BlockContent(text))

MissingRequired ==
    {definition[i].name : i \in {j \in 1..Len(definition) :
        definition[j].required /\ definition[j].name \notin params}}

\* C11: validate_parameters fails exactly when a required parameter is
\* absent from the arguments, and the failure names every missing required
\* parameter; arguments that are not declared never make it fail.
C11_ValidationListsEveryMissingParameter ==
    vresult.called =>
      /\ vresult.raised <=> MissingRequired # {}
      /\ vresult.raised => vresult.named = MissingRequired

\* what counts as a tool-level error report
ToolLevelErrors == {"tool_error", "error_details", "error_message"}

\* C12: on every path that runs a tool, a call whose arguments lack a
\* required parameter never reaches the tool's execute, and the failure is
\* reported as a tool-level error.
C12_MissingArgumentNeverReachesExecute ==
    MissingRequired # {} =>
      /\ ~entered
      /\ tpc = "done" => report \in ToolLevelErrors

\* C13: at the start of a turn of an agent with tools, whose provider has a
\* native-support flag, the native adapter is chosen if and only if the flag
\* is true for the model in use, and the fallback adapter otherwise.
C13_AdapterFollowsNativeSupportFlag ==
    (spc = "turn" /\ has_tools /\ HasNativeFlag(default_model.provider)) =>
      /\ adapter \in {"native", "fallback"}
      /\ adapter = "native" <=>
           SupportsNativeFunctionCalling(default_model.provider, default_model.model)

\* the place of a provider in the order Ollama, OpenRouter, OpenAI, Zhipu
PreferenceRank == [ollama |-> 1, openrouter |-> 2, openai |-> 3, zhipu |-> 4]

\* the configured providers whose get_default_model does not raise
Able == providers \ failing

\* C20: get_default_model returns the default model of the first provider,
\* in the order Ollama, OpenRouter, OpenAI, Zhipu, that is configured and
\* does not raise; the providers after it are not asked, the configured
\* ones before it are asked once each; without such a provider it raises
\* RuntimeError.
C20_DefaultModelOfFirstAbleProvider ==
    spc \in {"setup", "failed", "ready", "turn"} =>
      IF Able = {}
      THEN /\ default_model.raised
           /\ {asked[i] : i \in 1..Len(asked)} = providers
           /\ Len(asked) = Cardinality(providers)
      ELSE LET first == CHOOSE p \in Able :
                          \A q \in Able : PreferenceRank[p] <= PreferenceRank[q]
               due == {p \in providers : PreferenceRank[p] <= PreferenceRank[first]}
           IN  /\ ~default_model.raised
               /\ default_model.provider = first
               /\ default_model.model = DefaultModelName(first)
               /\ {asked[i] : i \in 1..Len(asked)} = due
               /\ Len(asked) = Cardinality(due)
               /\ asked[Len(asked)] = first

\* Ollama was asked and raised, OpenRouter is configured too, and the model
\* of a later provider was returned although a provider after it is there
C20_Witness ==
    /\ spc = "turn"
    /\ "ollama" \in failing
    /\ default_model.provider = "openrouter"
    /\ "zhipu" \in providers
    /\ asked = <<"ollama", "openrouter">>

\* C14: the agent executor that serves a turn is the one the agent had when
\* the turn's request was accepted; a request that arrives while the turn
\* is in progress does not change it.
C14_TurnKeepsItsExecutor ==
    \A t \in DOMAIN turns :
        turns[t].served_by \notin {"none", "hybrid_caller"} =>
            turns[t].served_by = turns[t].at_start

C15_DisconnectSparesToolInFlight ==
    /\ \A d \in HistOf({"disconnect"}) : \A c \in HistOf({"call"}) : c < d
    /\ HistOf({"interrupted"}) = {}

C18_ResponseEndsWithOneDone ==
    TurnOver =>
        /\ Len(stream) > 0
        /\ stream[Len(stream)].type = "done"
        /\ Cardinality(EventsOf({"done"})) = 1

\* C19: GET /health answers 200 with the health status of the agent when
\* check_health succeeds, and 503 with a detail that starts with
\* 'Servei no saludable' whenever check_health raises.
C19_HealthReportsTheAgentsStatus ==
    \A i \in 1..Len(health_responses) :
        IF check_raises
        THEN /\ health_responses[i].status = 503
             /\ health_responses[i].body.json = "detail"
             /\ Head(health_responses[i].body.detail) = Head(Unhealthy.body.detail)
        ELSE /\ health_responses[i].status = 200
             /\ health_responses[i].body = CheckHealth(model_health)

\* the number of user messages in a history
UserCount(h) == Cardinality({i \in 1..Len(h) : h[i].role = "user"})

\* C22: after any sequence of add_message and clear_history calls, for any
\* max_user_messages, every chat's history holds at most max_user_messages
\* messages with role user, and no call has raised.
C22_WindowBoundsUserMessages ==
    /\ \A c \in Chats : UserCount(histories[c]) <= max_user_messages
    /\ ~add_raised

\* C29: a chat's history is a suffix, in the original order, of the messages
\* added to the chat since its last clear_history, and when messages were
\* removed the history starts with a user message.
C29_WindowRemovesOnlyAPrefix ==
    \A c \in Chats :
        LET h == histories[c]
            a == added[c]
        IN /\ Len(h) <= Len(a)
           /\ h = SubSeq(a, Len(a) - Len(h) + 1, Len(a))
           /\ Len(h) < Len(a) => (h # <<>> /\ h[1].role = "user")

\* the window has removed a user message and an assistant message of a chat
\* and has kept an assistant message between two user messages
C29_Witness ==
    \E c \in Chats :
        /\ Len(added[c]) = 4
        /\ Len(histories[c]) = 2
        /\ added[c][2].role = "assistant"
        /\ histories[c][1].role = "user"
        /\ histories[c][2].role = "assistant"

\* the ways a Telegram turn ends without an exception
EndsWithoutException == {"normal", "error_event", "empty"}

\* C21: in handle_message no message is sent for a tool_call, tool_result
\* or tool_error event while debug mode is off and one message is sent for
\* each while it is on, and the accumulated content is sent as the final
\* response, for any sequence of events.
C21_DebugModeGatesToolMessages ==
    \A h \in HandlerIds :
        LET me == handlers[h] IN
        /\ me.way # "send_exception" => me.tool_sent = me.tool_on
        /\ (me.hpc = "finally" /\ me.way \in EndsWithoutException
               /\ me.full_response # <<>>)
              => me.final = <<me.full_response>>

\* C26: for each chat at most one handle_message call is processing; a
\* message that arrives while the chat is active is not added to the
\* history, is not sent to the agent and leaves the flag of the call in
\* progress set.
C26_OneHandlerPerChat ==
    /\ \A h1, h2 \in HandlerIds :
         (h1 # h2 /\ handlers[h1].hpc \in Processing /\ handlers[h2].hpc \in Processing)
            => handlers[h1].chat # handlers[h2].chat
    /\ \A h \in HandlerIds :
         handlers[h].hpc \in Processing => active_chats[handlers[h].chat]
    /\ \A h \in HandlerIds :
         handlers[h].hpc = "rejected"
            => (~handlers[h].agent_called /\ handlers[h].user_stamp = 0)

\* a message was rejected while the first one of the chat is streaming
C26_Witness ==
    /\ handlers[1].hpc = "stream"
    /\ handlers[2].hpc = "rejected"
    /\ handlers[2].chat = handlers[1].chat
    /\ active_chats[handlers[1].chat]

\* C27: a chat's active flag, once set, is cleared again on every way out
\* of handle_message, so a later message of the chat is accepted.
C27_ActiveFlagIsCleared ==
    \A c \in FollowedChats : active_chats[c] ~> ~active_chats[c]

\* the first call has returned and the next message of the chat has been
\* accepted and has reached the finally clause through an exception
C27_Witness ==
    /\ handlers[1].hpc = "done"
    /\ handlers[2].hpc = "finally"
    /\ handlers[2].chat = handlers[1].chat
    /\ handlers[2].way = "stream_exception"
    /\ active_chats[handlers[2].chat]

\* the user message of the call is in the history of its chat
UserMessageRecorded(me) ==
    \E i \in 1..Len(histories[me.chat]) :
        /\ histories[me.chat][i].role = "user"
        /\ histories[me.chat][i].timestamp = me.user_stamp

\* C28: the user message is recorded before the agent is called; an
\* assistant message is recorded only after a turn without error event and
\* with non-empty content; a turn that ends otherwise records none and
\* does not remove the user message.
C28_HistoryRecordsTheTurn ==
    \A h \in HandlerIds :
        LET me == handlers[h] IN
        /\ me.agent_called => (me.user_stamp # 0 /\ UserMessageRecorded(me))
        /\ me.assistant_added => (me.way = "normal" /\ me.full_response # <<>>)
        /\ (me.hpc = "finally" /\ me.way # "normal") => ~me.assistant_added
        /\ (me.hpc = "finally" /\ me.user_stamp # 0) => UserMessageRecorded(me)

\* a turn has ended with an error event after some content: the user
\* message is in the history and the last message of the chat is not an
\* assistant message
C28_Witness ==
    \E h \in HandlerIds :
        LET me == handlers[h] IN
        /\ me.hpc = "finally"
        /\ me.way = "error_event"
        /\ me.full_response # <<>>
        /\ UserMessageRecorded(me)
        /\ histories[me.chat][Len(histories[me.chat])].role = "user"

\* the tool calls of the response in hand, for registered tools, that the
\* native loop has not reached
CallsNotRun ==
    {i \in (callIdx + 1)..Len(tool_calls) : tool_calls[i] \in Registry}

\* C24: when one model response carries several tool calls for registered
\* tools, each of them is executed and gets its own tool_call event followed
\* by its own tool_result or tool_error; no call of the response is skipped
\* because an earlier one succeeded or failed.
C24_EveryCallOfAResponseRuns ==
    (impl = "agent" /\ pc \in {"returned", "closed"} /\ EventsOf({"error"}) = {}) =>
        /\ CallsNotRun = {}
        /\ \A i \in HistOf({"request"}) :
             history[i].tool \in Registry =>
                \E j \in EventsOf({"tool_call"}), k \in EventsOf({"tool_result", "tool_error"}) :
                   /\ j < k
                   /\ stream[j].req = history[i].req
                   /\ stream[k].req = history[i].req

\* the positions of the user messages of a message list
UserPositions(msgs) == {i \in 1..Len(msgs) : msgs[i].role \in {"user", "human"}}

\* a message dictionary as the LangChain message of its role
AsLangChain(msg) ==
    [type |-> IF msg.role \in {"user", "human"} THEN "HumanMessage"
              ELSE IF msg.role \in {"assistant", "ai"} THEN "AIMessage"
              ELSE "SystemMessage",
     content |-> msg.content]

\* C23: chat_stream uses the last user message of the list as the agent's
\* input and passes every earlier user, assistant and system message as
\* chat history, in the original order.
C23_LastUserMessageIsTheInput ==
    (agent_input.called /\ UserPositions(lc_messages) # {}) =>
        LET last == CHOOSE i \in UserPositions(lc_messages) :
                       \A j \in UserPositions(lc_messages) : j <= i
        IN /\ agent_input.input = lc_messages[last].content
           /\ agent_input.chat_history =
                 [i \in 1..(last - 1) |-> AsLangChain(lc_messages[i])]

\* C25: after switch_model has returned, every later turn is served by the
\* model it switched to, also when the agent has a hybrid caller; after a
\* switch_model that raised, turns are served by the model the agent had.
C25_TurnServedByTheSwitchedModel ==
    \A t \in DOMAIN turns :
        turns[t].model_used # "none" => turns[t].model_used = turns[t].model_due


\* the call meets one of the three failures: a required parameter is
\* missing, the tool raises, or the tool returns a dictionary with status
\* "error"
ArunFails ==
    \/ MissingRequired # {}
    \/ tool_behaviour \in {"raises", "returns_error", "returns_error_no_text"}

\* the text of the failure appears in a message
Carries(message, piece) == \E i \in 1..Len(message) : message[i] = piece

\* the text of the failure of a tool whose arguments were valid
ArunFailureText ==
    IF tool_behaviour = "raises" THEN ToolExceptionText[1]
    ELSE IF tool_behaviour = "returns_error" THEN "empty word"
    ELSE "Tool execution failed"

====
